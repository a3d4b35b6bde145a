--------------------------- MODULE Config_proofs ---------------------------
(***************************************************************************)
(* What Config guarantees for any tree of sections, any items, values and  *)
(* files, and any number of loads.                                         *)
(***************************************************************************)
EXTENDS Config, FiniteSetTheorems, SequenceTheorems, TLAPS

USE ConfigAssumption

(* What a section or a copy holds while no error has been printed.         *)
Block(s) ==
    [found : BOOLEAN, name : Values \union {""}, got : SUBSET ItemsOf[s],
     val : [ItemsOf[s] -> Values \union {"stale", "default"}]]

(* The sections that outlive the loads are there, beside copies of MULTIPLE*)
(* ones; the copies of a section are numbered from 1 to their number.      *)
Shape ==
    /\ conf = [b \in DOMAIN conf |-> conf[b]]
    /\ \A s \in Sections : Original(s) \in DOMAIN conf
    /\ \A b \in DOMAIN conf :
        /\ b \in Sections \X Nat /\ (IsCopy(b) => Multiple(b))
        /\ conf[b] \in Block(b[1])
    /\ \A s \in Sections :
        /\ IsFiniteSet(Copies(s))
        /\ \A b \in Copies(s) : b[2] <= Cardinality(Copies(s))

(* A line stands in a section or a copy, never in a MULTIPLE section.      *)
Place == cur = None \/ (cur \in DOMAIN conf /\ (Multiple(cur) => IsCopy(cur)))

(* Only the copy the line stands in may lack a name; a name is the value   *)
(* the file gave, and no two copies of a section share one.                *)
Named ==
    \A b \in DOMAIN conf : IsCopy(b) =>
        /\ conf[b].name = "" => b = cur
        /\ conf[b].name # "" => /\ NameItem[b[1]] \in conf[b].got
                                /\ conf[b].name = conf[b].val[NameItem[b[1]]]
        /\ \A c \in Copies(b[1]) :
              b # c /\ conf[b].name # "" => conf[c].name # conf[b].name

(* The blocks by the brackets are those of the parser.                     *)
Blocks ==
    /\ given = [b \in DOMAIN given |-> given[b]]
    /\ \A b \in DOMAIN given :
        /\ b \in DOMAIN conf /\ (Multiple(b) => IsCopy(b))
        /\ given[b] \in [ItemsOf[b[1]] -> Values \union {"none"}]
    /\ \A b \in DOMAIN conf : IsCopy(b) => b \in DOMAIN given

(* What the parser has found is what the file has given.                   *)
Found ==
    \A b \in DOMAIN conf : \A i \in ItemsOf[b[1]] :
        /\ i \in conf[b].got <=> b \in DOMAIN given /\ given[b][i] # "none"
        /\ i \in conf[b].got => conf[b].val[i] = given[b][i]

(* The open blocks stand in each other, and the parser in the last one.    *)
Path ==
    /\ stack \in Seq(Sections \X Nat)
    /\ \A k \in 1..Len(stack) :
        /\ stack[k] \in DOMAIN given
        /\ Parent(stack[k]) = IF k = 1 THEN None ELSE stack[k - 1]
    /\ cur = Top

Sound == Shape /\ Place /\ Named /\ Blocks /\ Found /\ Path

(* An error ends in "quitting", so nothing is asked of what it leaves.     *)
ConfigInv ==
    /\ stage \in {"out", "reading", "running", "quitting"}
    /\ stage \in {"out", "running"} => ~error /\ cur = None
    /\ ~error /\ stage # "quitting" => Sound
    /\ RunsOnItsFile /\ CopiesNamed
-----------------------------------------------------------------------------
(* A new section has no name, and no items that were found.                *)
LEMMA FreshType ==
    ASSUME NEW s
    PROVE  Fresh(s) \in Block(s) /\ Fresh(s).name = "" /\ Fresh(s).got = {}
<1>1. FreshItems(s) \in [ItemsOf[s] -> Values \union {"stale", "default"}]
  BY DEF FreshItems
<1>2. {} \in SUBSET ItemsOf[s] OBVIOUS
<1> QED BY <1>1, <1>2 DEF Fresh, Block

(* The number of copies is one number, and a copy more has the next one.   *)
LEMMA NewCopy ==
    ASSUME Shape, NEW s \in Sections
    PROVE  /\ Cardinality(Copies(s)) \in Nat
           /\ <<s, 1 + Cardinality(Copies(s))>> \notin DOMAIN conf
<1>1. IsFiniteSet(Copies(s)) /\ \A b \in Copies(s) : b[2] <= Cardinality(Copies(s))
  BY DEF Shape
<1>2. Cardinality(Copies(s)) \in Nat BY <1>1, FS_CardinalityType
<1>3. ASSUME <<s, 1 + Cardinality(Copies(s))>> \in DOMAIN conf PROVE FALSE
  <2>1. <<s, 1 + Cardinality(Copies(s))>> \in Copies(s)
    BY <1>2, <1>3 DEF Copies, IsCopy
  <2>2. <<s, 1 + Cardinality(Copies(s))>>[2] <= Cardinality(Copies(s)) BY <1>1, <2>1
  <2> QED BY <1>2, <2>2
<1> QED BY <1>2, <1>3

(* The block a section line opens: by the brackets and for the parser.     *)
Opens(s, b) ==
    /\ b \in Sections \X Nat /\ b[1] = s
    /\ Multiple(b) => IsCopy(b) /\ b \notin DOMAIN conf /\ b \notin DOMAIN given
                      /\ b = <<s, 1 + Cardinality(Copies(s))>>
    /\ ~Multiple(b) => b = Original(s) /\ b \in DOMAIN conf /\ ~IsCopy(b)

(* GivenBlock() is that block.                                             *)
LEMMA BlockOpened ==
    ASSUME Sound, NEW s \in Sections
    PROVE  /\ Opens(s, GivenBlock(s))
           /\ GivenBlock(s) = IF TypeOf[s] = "MULTIPLE"
                              THEN <<s, 1 + Cardinality(Copies(s))>> ELSE Original(s)
<1>0. Shape /\ Blocks BY DEF Sound
<1>1. CASE TypeOf[s] = "MULTIPLE"
  <2>1. {b \in DOMAIN given : b[1] = s} = Copies(s)
    BY <1>0, <1>1 DEF Blocks, Copies, Multiple
  <2>2. GivenBlock(s) = <<s, 1 + Cardinality(Copies(s))>> BY <1>1, <2>1 DEF GivenBlock
  <2>3. Cardinality(Copies(s)) \in Nat /\ GivenBlock(s) \notin DOMAIN conf
    BY <1>0, <2>2, NewCopy
  <2>4. GivenBlock(s) \notin DOMAIN given BY <1>0, <2>3 DEF Blocks
  <2> QED BY <1>1, <2>2, <2>3, <2>4 DEF Opens, Multiple, IsCopy
<1>2. CASE TypeOf[s] # "MULTIPLE"
  <2>1. GivenBlock(s) = Original(s) BY <1>2 DEF GivenBlock
  <2>2. Original(s) \in DOMAIN conf BY <1>0 DEF Shape
  <2> QED BY <1>2, <2>1, <2>2 DEF Opens, Multiple, IsCopy, Original
<1> QED BY <1>1, <1>2

(* A section line that is no error leaves a sound state.                   *)
LEMMA SectionSound ==
    ASSUME Sound, NEW s \in Sections, SectionLine(s), ~error'
    PROVE  Sound'
<1>0. Shape /\ Place /\ Named /\ Blocks /\ Found /\ Path BY DEF Sound
<1> DEFINE b == GivenBlock(s)
<1>1. Opens(s, b) BY BlockOpened
<1>2. ParentOf[s] = cur[1] BY DEF SectionLine
<1>3. /\ conf' = [x \in DOMAIN conf \union {b} |->
                    IF x \in DOMAIN conf THEN [conf EXCEPT ![Original(s)].found = TRUE][x]
                    ELSE CopyOf(s)]
      /\ cur' = b
  BY <1>2, BlockOpened DEF SectionLine
<1>4. stack' = Append(stack, b) /\ given' = Opened(b)
  BY <1>0, <1>2 DEF SectionLine, Path
<1> HIDE DEF b
<1>5. /\ DOMAIN conf' = DOMAIN conf \union {b} /\ conf' = [x \in DOMAIN conf' |-> conf'[x]]
      /\ \A x \in DOMAIN conf : /\ conf'[x] \in Block(x[1])
                                /\ conf'[x].name = conf[x].name
                                /\ conf'[x].got = conf[x].got /\ conf'[x].val = conf[x].val
      /\ b \notin DOMAIN conf => /\ conf'[b] \in Block(s)
                                 /\ conf'[b].name = "" /\ conf'[b].got = {}
  <2>1. /\ DOMAIN conf' = DOMAIN conf \union {b} /\ conf' = [x \in DOMAIN conf' |-> conf'[x]]
    BY <1>3
  <2>2. ASSUME NEW x \in DOMAIN conf
        PROVE  /\ conf'[x] \in Block(x[1])
               /\ conf'[x].name = conf[x].name
               /\ conf'[x].got = conf[x].got /\ conf'[x].val = conf[x].val
    <3>1. conf[x] \in Block(x[1]) BY <1>0 DEF Shape
    <3>2. conf'[x] = [conf EXCEPT ![Original(s)].found = TRUE][x] BY <1>3, <2>2
    <3>3. conf'[x] = IF x = Original(s) THEN [conf[x] EXCEPT !.found = TRUE] ELSE conf[x]
      BY <1>0, <2>2, <3>2 DEF Shape
    <3>4. CASE conf'[x] = conf[x] BY <3>1, <3>4, Zenon
    <3>5. CASE conf'[x] = [conf[x] EXCEPT !.found = TRUE]
      <4> DEFINE B == conf[x]
      <4>1. B \in [found : BOOLEAN, name : Values \cup {""}, got : SUBSET ItemsOf[x[1]],
                   val : [ItemsOf[x[1]] -> Values \cup {"stale", "default"}]]
        BY <3>1 DEF Block
      <4> HIDE DEF B
      <4>2. /\ [B EXCEPT !.found = TRUE] \in
                 [found : BOOLEAN, name : Values \cup {""}, got : SUBSET ItemsOf[x[1]],
                  val : [ItemsOf[x[1]] -> Values \cup {"stale", "default"}]]
            /\ [B EXCEPT !.found = TRUE].name = B.name
            /\ [B EXCEPT !.found = TRUE].got = B.got
            /\ [B EXCEPT !.found = TRUE].val = B.val
        BY <4>1
      <4> QED BY <3>5, <4>2, Zenon DEF B, Block
    <3> QED BY <3>3, <3>4, <3>5
  <2>3. ASSUME b \notin DOMAIN conf
        PROVE  conf'[b] \in Block(s) /\ conf'[b].name = "" /\ conf'[b].got = {}
    <3>1. conf'[b] = CopyOf(s) BY <1>3, <2>3
    <3>2. Fresh(s) \in Block(s) /\ Fresh(s).name = "" /\ Fresh(s).got = {}
      BY FreshType
    <3> QED BY <3>1, <3>2 DEF CopyOf, Block
  <2> QED BY <2>1, <2>2, <2>3
<1>6. /\ DOMAIN given' = DOMAIN given \union {b} /\ given' = [x \in DOMAIN given' |-> given'[x]]
      /\ \A x \in DOMAIN given : given'[x] = given[x]
      /\ b \notin DOMAIN given => given'[b] = [i \in ItemsOf[s] |-> "none"]
  <2>1. CASE b \in DOMAIN given
    BY <1>0, <1>4, <2>1, ZenonT(60) DEF Opened, Blocks
  <2>2. CASE b \notin DOMAIN given
    <3>1. given' = [x \in DOMAIN given \union {b} |->
                      IF x = b THEN [i \in ItemsOf[b[1]] |-> "none"] ELSE given[x]]
      BY <1>4, <2>2 DEF Opened
    <3>2. b[1] = s BY <1>1 DEF Opens
    <3> QED BY <2>2, <3>1, <3>2
  <2> QED BY <2>1, <2>2
<1>7. ~IsCopy(cur) /\ cur = Original(ParentOf[s])
  <2>1. CASE cur = None BY <1>2, <2>1 DEF IsCopy, None, Original
  <2>2. CASE cur \in DOMAIN conf
    <3>1. cur \in Sections \X Nat /\ (IsCopy(cur) => Multiple(cur)) BY <1>0, <2>2 DEF Shape
    <3>2. ParentOf[s] # "none" BY <1>2, <3>1
    <3>3. ~Multiple(cur) BY <1>2, <3>2 DEF Multiple
    <3> QED BY <1>2, <3>1, <3>3 DEF IsCopy, Original
  <2> QED BY <1>0, <2>1, <2>2 DEF Place
<1>8. Shape'
  <2>1. \A t \in Sections : Original(t) \in DOMAIN conf' BY <1>0, <1>5 DEF Shape
  <2>2. \A x \in DOMAIN conf' : x \in Sections \X Nat /\ (IsCopy(x) => Multiple(x))
    BY <1>0, <1>1, <1>5 DEF Shape, Opens
  <2>3. \A x \in DOMAIN conf' : conf'[x] \in Block(x[1])
    BY <1>0, <1>1, <1>5 DEF Opens
  <2>4. ASSUME NEW t \in Sections
        PROVE  /\ IsFiniteSet(Copies(t)')
               /\ \A x \in Copies(t)' : x[2] <= Cardinality(Copies(t)')
    <3>1. IsFiniteSet(Copies(t)) /\ \A x \in Copies(t) : x[2] <= Cardinality(Copies(t))
      BY <1>0 DEF Shape
    <3>2. CASE t = s /\ Multiple(b)
      <4>1. Copies(t)' = Copies(t) \union {b} BY <1>1, <1>5, <3>2 DEF Copies, Opens
      <4>2. b \notin Copies(t) BY <1>1, <3>2 DEF Copies, Opens
      <4>3. /\ IsFiniteSet(Copies(t)')
            /\ Cardinality(Copies(t)') = Cardinality(Copies(t)) + 1
        BY <3>1, <4>1, <4>2, FS_AddElement
      <4>4. Cardinality(Copies(t)) \in Nat BY <3>1, FS_CardinalityType
      <4>5. b[2] = 1 + Cardinality(Copies(t)) BY <1>1, <3>2 DEF Opens
      <4>6. \A x \in Copies(t) : x[2] \in Nat BY <1>0 DEF Shape, Copies
      <4>7. \A x \in Copies(t)' : x[2] <= Cardinality(Copies(t)) + 1
        BY <3>1, <4>1, <4>4, <4>5, <4>6
      <4> QED BY <4>3, <4>7
    <3>3. CASE ~(t = s /\ Multiple(b))
      <4>1. Copies(t)' = Copies(t) BY <1>1, <1>5, <3>3 DEF Copies, Opens
      <4> QED BY <3>1, <4>1
    <3> QED BY <3>2, <3>3
  <2> QED BY <1>5, <2>1, <2>2, <2>3, <2>4 DEF Shape
<1>9. Place'
  BY <1>1, <1>3, <1>5 DEF Place, Opens, Multiple, IsCopy
<1>10. Named'
  <2>1. \A x \in DOMAIN conf : IsCopy(x) => conf[x].name # ""
    BY <1>0, <1>7 DEF Named
  <2> SUFFICES ASSUME NEW x \in DOMAIN conf', IsCopy(x)
               PROVE  /\ conf'[x].name = "" => x = cur'
                      /\ conf'[x].name # "" => /\ NameItem[x[1]] \in conf'[x].got
                                               /\ conf'[x].name = conf'[x].val[NameItem[x[1]]]
                      /\ \A c \in Copies(x[1])' :
                            x # c /\ conf'[x].name # "" => conf'[c].name # conf'[x].name
    BY DEF Named
  <2>2. CASE x \notin DOMAIN conf
    BY <1>3, <1>5, <2>2
  <2>3. CASE x \in DOMAIN conf
    <3>1. conf'[x].name # "" BY <1>5, <2>1, <2>3
    <3>2. /\ NameItem[x[1]] \in conf'[x].got
          /\ conf'[x].name = conf'[x].val[NameItem[x[1]]]
      BY <1>0, <1>5, <2>1, <2>3 DEF Named
    <3>3. ASSUME NEW c \in Copies(x[1])', x # c PROVE conf'[c].name # conf'[x].name
      <4>1. CASE c \in DOMAIN conf
        <5>1. c \in Copies(x[1]) BY <3>3, <4>1 DEF Copies
        <5>2. conf[x].name # "" BY <2>1, <2>3
        <5>3. conf[c].name # conf[x].name BY <1>0, <2>3, <3>3, <5>1, <5>2 DEF Named
        <5> QED BY <1>5, <2>3, <4>1, <5>3
      <4>2. CASE c \notin DOMAIN conf
        BY <1>5, <3>1, <3>3, <4>2 DEF Copies
      <4> QED BY <4>1, <4>2
    <3> QED BY <3>1, <3>2, <3>3
  <2> QED BY <2>2, <2>3
<1>11. Blocks'
  <2>1. ASSUME NEW x \in DOMAIN given'
        PROVE  /\ x \in DOMAIN conf' /\ (Multiple(x) => IsCopy(x))
               /\ given'[x] \in [ItemsOf[x[1]] -> Values \union {"none"}]
    <3>1. CASE x \in DOMAIN given
      <4>1. /\ x \in DOMAIN conf /\ (Multiple(x) => IsCopy(x))
            /\ given[x] \in [ItemsOf[x[1]] -> Values \union {"none"}]
        BY <1>0, <3>1 DEF Blocks
      <4> QED BY <1>5, <1>6, <3>1, <4>1
    <3>2. CASE x \notin DOMAIN given
      <4>1. x = b /\ given'[x] = [i \in ItemsOf[s] |-> "none"] BY <1>6, <3>2
      <4>2. x[1] = s /\ (Multiple(x) => IsCopy(x)) BY <1>1, <4>1 DEF Opens
      <4>3. given'[x] \in [ItemsOf[x[1]] -> Values \union {"none"}] BY <4>1, <4>2
      <4> QED BY <1>5, <4>1, <4>2, <4>3
    <3> QED BY <3>1, <3>2
  <2>2. \A x \in DOMAIN conf' : IsCopy(x) => x \in DOMAIN given'
    BY <1>0, <1>5, <1>6 DEF Blocks
  <2> QED BY <1>6, <2>1, <2>2 DEF Blocks
<1>12. Found'
  <2> SUFFICES ASSUME NEW x \in DOMAIN conf', NEW i \in ItemsOf[x[1]]
               PROVE  /\ i \in conf'[x].got <=> x \in DOMAIN given' /\ given'[x][i] # "none"
                      /\ i \in conf'[x].got => conf'[x].val[i] = given'[x][i]
    BY DEF Found
  <2>1. CASE x \notin DOMAIN conf
    <3>1. x = b /\ conf'[x].got = {} /\ x \notin DOMAIN given
      BY <1>0, <1>5, <2>1 DEF Blocks
    <3>2. given'[x][i] = "none" BY <1>1, <1>6, <3>1 DEF Opens
    <3> QED BY <3>1, <3>2
  <2>2. CASE x \in DOMAIN conf /\ x \in DOMAIN given
    <3>1. /\ i \in conf[x].got <=> given[x][i] # "none"
          /\ i \in conf[x].got => conf[x].val[i] = given[x][i]
      BY <1>0, <2>2 DEF Found
    <3>2. conf'[x].got = conf[x].got /\ conf'[x].val = conf[x].val BY <1>5, <2>2
    <3>3. x \in DOMAIN given' /\ given'[x] = given[x] BY <1>6, <2>2
    <3> QED BY <3>1, <3>2, <3>3
  <2>3. CASE x \in DOMAIN conf /\ x \notin DOMAIN given
    <3>1. i \notin conf'[x].got BY <1>0, <1>5, <2>3 DEF Found
    <3>2. x \in DOMAIN given' => given'[x][i] = "none"
      BY <1>1, <1>6, <2>3 DEF Opens
    <3> QED BY <3>1, <3>2
  <2> QED BY <2>1, <2>2, <2>3
<1>13. Path'
  <2>1. b \in Sections \X Nat /\ stack \in Seq(Sections \X Nat) BY <1>0, <1>1 DEF Opens, Path
  <2>2. /\ stack' \in Seq(Sections \X Nat) /\ Len(stack') = Len(stack) + 1
        /\ \A k \in 1..Len(stack) : stack'[k] = stack[k]
        /\ stack'[Len(stack) + 1] = b
    BY <1>4, <2>1
  <2>3. Len(stack) \in Nat BY <2>1
  <2>4. Top' = b BY <2>2, <2>3 DEF Top, Last
  <2>5. Parent(b) = cur BY <1>1, <1>7 DEF Parent, Opens
  <2>6. cur = IF Len(stack) + 1 = 1 THEN None ELSE stack[Len(stack)]
    BY <1>0, <2>1 DEF Path, Top, Last
  <2>7. ASSUME NEW k \in 1..Len(stack')
        PROVE  /\ stack'[k] \in DOMAIN given'
               /\ Parent(stack'[k]) = IF k = 1 THEN None ELSE stack'[k - 1]
    <3>1. CASE k = Len(stack) + 1
      BY <1>6, <2>2, <2>3, <2>5, <2>6, <3>1
    <3>2. CASE k \in 1..Len(stack)
      <4>1. k # 1 => k - 1 \in 1..Len(stack) BY <2>3, <3>2
      <4> QED BY <1>0, <1>6, <2>2, <3>2, <4>1 DEF Path
    <3> QED BY <2>2, <2>3, <3>1, <3>2
  <2> QED BY <1>3, <2>2, <2>4, <2>7 DEF Path
<1> QED BY <1>8, <1>9, <1>10, <1>11, <1>12, <1>13 DEF Sound

(* "}" that is no error leaves a sound state: the block it closes has its  *)
(* name, and the parser goes where the brackets go.                        *)
LEMMA CloseSound ==
    ASSUME Sound, CloseLine, ~error'
    PROVE  Sound'
<1>0. Shape /\ Place /\ Named /\ Blocks /\ Found /\ Path BY DEF Sound
<1>1. /\ cur # None /\ cur' = Parent(cur) /\ ~(IsCopy(cur) /\ conf[cur].name = "")
      /\ UNCHANGED <<conf, given>>
  BY DEF CloseLine
<1>2. cur \in DOMAIN conf /\ cur \in Sections \X Nat BY <1>0, <1>1 DEF Place, Shape
<1>3. stack \in Seq(Sections \X Nat) /\ stack # <<>> /\ cur = stack[Len(stack)]
  BY <1>0, <1>1 DEF Path, Top, Last
<1>4. Len(stack) \in Nat \ {0} BY <1>3
<1>5. stack' = SubSeq(stack, 1, Len(stack) - 1) BY <1>3 DEF CloseLine, Front
<1>6. /\ stack' \in Seq(Sections \X Nat) /\ Len(stack') = Len(stack) - 1
      /\ \A k \in 1..(Len(stack) - 1) : stack'[k] = stack[k]
  <2> DEFINE S == Sections \X Nat
  <2>1. stack \in Seq(S) BY <1>3
  <2> HIDE DEF S
  <2>2. /\ stack' \in Seq(S) /\ Len(stack') = Len(stack) - 1
        /\ \A k \in 1..(Len(stack) - 1) : stack'[k] = stack[k]
    <3>1. PICK m \in Nat : m = Len(stack) - 1 BY <1>4
    <3>2. \A k \in 1..m : stack[k] \in S BY <1>4, <2>1, <3>1
    <3>3. /\ SubSeq(stack, 1, m) \in Seq(S)
          /\ Len(SubSeq(stack, 1, m)) = IF 1 <= m THEN m - 1 + 1 ELSE 0
          /\ \A k \in 1..(m - 1 + 1) : SubSeq(stack, 1, m)[k] = stack[1 + k - 1]
      <4>1. m \in Int /\ 1 \in Int BY <3>1
      <4> QED BY <3>2, <4>1, SubSeqProperties
    <3>4. Len(SubSeq(stack, 1, m)) = m /\ m - 1 + 1 = m BY <3>3
    <3>5. \A k \in 1..m : SubSeq(stack, 1, m)[k] = stack[k] BY <3>3, <3>4
    <3> QED BY <1>5, <3>1, <3>3, <3>4, <3>5
  <2> QED BY <2>2 DEF S
<1>7. cur' = IF Len(stack) = 1 THEN None ELSE stack[Len(stack) - 1]
  <2>1. Len(stack) \in 1..Len(stack) BY <1>4
  <2> QED BY <1>0, <1>1, <1>3, <2>1 DEF Path
<1>8. Shape' BY <1>0, <1>1 DEF Shape, Copies
<1>9. Place'
  <2>1. ParentOf[cur[1]] \in Sections \union {"none"} BY <1>2
  <2>2. CASE ParentOf[cur[1]] = "none" BY <1>1, <2>2 DEF Place, Parent, Original, None
  <2>3. CASE ParentOf[cur[1]] \in Sections
    <3>1. cur' \in DOMAIN conf' BY <1>0, <1>1, <2>3 DEF Parent, Shape
    <3>2. ~Multiple(cur') BY <1>1, <1>2, <2>3 DEF Parent, Original, Multiple
    <3> QED BY <3>1, <3>2 DEF Place, Multiple
  <2> QED BY <2>1, <2>2, <2>3
<1>10. Named'
  <2>1. \A b \in DOMAIN conf : IsCopy(b) => conf[b].name # "" BY <1>0, <1>1 DEF Named
  <2> QED BY <1>0, <1>1, <2>1 DEF Named, Copies
<1>11. Blocks' /\ Found' BY <1>0, <1>1 DEF Blocks, Found
<1>12. Path'
  <2>1. cur' = Top'
    <3>1. CASE Len(stack) = 1
      <4>1. stack' = <<>> BY <1>6, <3>1
      <4> QED BY <1>7, <3>1, <4>1 DEF Top
    <3>2. CASE Len(stack) # 1
      <4>1. stack' # <<>> /\ stack'[Len(stack')] = stack[Len(stack) - 1] BY <1>4, <1>6, <3>2
      <4> QED BY <1>7, <3>2, <4>1 DEF Top, Last
    <3> QED BY <3>1, <3>2
  <2>2. ASSUME NEW k \in 1..Len(stack')
        PROVE  /\ stack'[k] \in DOMAIN given'
               /\ Parent(stack'[k]) = IF k = 1 THEN None ELSE stack'[k - 1]
    <3>0. /\ k \in 1..(Len(stack) - 1) /\ k \in 1..Len(stack)
          /\ k # 1 => k - 1 \in 1..(Len(stack) - 1)
      BY <1>4, <1>6
    <3>1. /\ k \in 1..Len(stack) /\ stack'[k] = stack[k]
          /\ k # 1 => stack'[k - 1] = stack[k - 1]
      BY <1>6, <3>0
    <3> QED BY <1>0, <1>1, <3>1 DEF Path
  <2> QED BY <1>6, <2>1, <2>2 DEF Path
<1> QED BY <1>8, <1>9, <1>10, <1>11, <1>12 DEF Sound

(* An item line that is no error leaves a sound state.                     *)
LEMMA ItemSound ==
    ASSUME Sound, NEW i, NEW v \in Values, ItemLine(i, v), ~error'
    PROVE  Sound'
<1>0. Shape /\ Place /\ Named /\ Blocks /\ Found /\ Path BY DEF Sound
<1> DEFINE n == IF NameItem[cur[1]] = i THEN v ELSE conf[cur].name
           r == WithItem(cur, i, v)
<1>1. /\ cur # None /\ i \in ItemsOf[cur[1]]
      /\ ~(NameItem[cur[1]] = i /\ NameTaken(cur[1], v))
      /\ UNCHANGED <<cur, stack>>
  BY DEF ItemLine
<1>2. cur \in DOMAIN conf /\ cur \in Sections \X Nat /\ conf[cur] \in Block(cur[1])
  BY <1>0, <1>1 DEF Place, Shape
<1>3. conf' = [conf EXCEPT ![cur] = r] BY <1>1 DEF ItemLine
<1>4. /\ DOMAIN conf' = DOMAIN conf /\ conf' = [x \in DOMAIN conf' |-> conf'[x]]
      /\ conf'[cur] = r /\ \A x \in DOMAIN conf : x # cur => conf'[x] = conf[x]
  BY <1>0, <1>2, <1>3 DEF Shape
<1>5. /\ r \in Block(cur[1]) /\ r.name = n /\ r.got = conf[cur].got \union {i}
      /\ r.val[i] = v /\ \A j \in ItemsOf[cur[1]] : j # i => r.val[j] = conf[cur].val[j]
  BY <1>1, <1>2 DEF Block, WithItem
<1> HIDE DEF r
<1>6. cur \in DOMAIN given /\ given' = [given EXCEPT ![cur][i] = v]
  <2>1. stack # <<>> /\ cur = Top BY <1>0, <1>1 DEF Path, Top
  <2>2. cur \in DOMAIN given
    <3>1. stack \in Seq(Sections \X Nat) BY <1>0 DEF Path
    <3>2. Len(stack) \in 1..Len(stack) BY <2>1, <3>1
    <3> QED BY <1>0, <2>1, <3>2 DEF Path, Top, Last
  <2> QED BY <1>1, <2>1, <2>2 DEF ItemLine, GivenValue
<1>7. /\ DOMAIN given' = DOMAIN given /\ given' = [x \in DOMAIN given' |-> given'[x]]
      /\ given'[cur] = [given[cur] EXCEPT ![i] = v]
      /\ \A x \in DOMAIN given : x # cur => given'[x] = given[x]
  BY <1>0, <1>6, ZenonT(60) DEF Blocks
<1>8. Shape'
  <2>1. \A s \in Sections : Copies(s)' = Copies(s) BY <1>4 DEF Copies
  <2>2. \A b \in DOMAIN conf' : conf'[b] \in Block(b[1])
    BY <1>0, <1>4, <1>5 DEF Shape
  <2> QED BY <1>0, <1>4, <2>1, <2>2 DEF Shape
<1>9. Place' BY <1>0, <1>1, <1>4 DEF Place, Multiple, IsCopy
<1>10. Named'
  <2> SUFFICES ASSUME NEW b \in DOMAIN conf, IsCopy(b)
               PROVE  /\ conf'[b].name = "" => b = cur
                      /\ conf'[b].name # "" => /\ NameItem[b[1]] \in conf'[b].got
                                               /\ conf'[b].name = conf'[b].val[NameItem[b[1]]]
                      /\ \A c \in Copies(b[1])' :
                            b # c /\ conf'[b].name # "" => conf'[c].name # conf'[b].name
    BY <1>1, <1>4 DEF Named
  <2>1. /\ conf[b].name = "" => b = cur
        /\ conf[b].name # "" => /\ NameItem[b[1]] \in conf[b].got
                                /\ conf[b].name = conf[b].val[NameItem[b[1]]]
        /\ \A c \in Copies(b[1]) :
              b # c /\ conf[b].name # "" => conf[c].name # conf[b].name
    BY <1>0 DEF Named
  <2>2. conf'[b].name = "" => b = cur BY <1>4, <2>1
  <2>3. conf'[b].name # "" => /\ NameItem[b[1]] \in conf'[b].got
                              /\ conf'[b].name = conf'[b].val[NameItem[b[1]]]
    <3>1. CASE b # cur BY <1>4, <2>1, <3>1
    <3>2. CASE b = cur /\ NameItem[b[1]] = i
      BY <1>4, <1>5, <3>2
    <3>3. CASE b = cur /\ NameItem[b[1]] # i
      <4>1. conf[cur].got \in SUBSET ItemsOf[cur[1]] BY <1>2 DEF Block
      <4>2. conf'[b].name = conf[b].name BY <1>4, <1>5, <3>3
      <4> QED BY <1>4, <1>5, <2>1, <3>3, <4>1, <4>2
    <3> QED BY <3>1, <3>2, <3>3
  <2>4. ASSUME NEW c \in Copies(b[1])', b # c, conf'[b].name # ""
        PROVE  conf'[c].name # conf'[b].name
    <3>1. c \in Copies(b[1]) /\ c \in DOMAIN conf /\ IsCopy(c) /\ c[1] = b[1]
      BY <1>4 DEF Copies
    <3>2. b \in Copies(c[1]) BY <3>1 DEF Copies
    <3>3. Multiple(b) BY <1>0 DEF Shape
    <3>4. CASE b # cur /\ c # cur BY <1>4, <2>1, <2>4, <3>1, <3>4
    <3>5. ASSUME NEW d \in DOMAIN conf, d[1] = cur[1], d # cur, conf[d].name # "",
                 IsCopy(d), cur \in Copies(d[1]), Multiple(cur)
          PROVE  conf[d].name # n
      <4>1. CASE NameItem[cur[1]] = i
        BY <1>1, <3>5, <4>1 DEF NameTaken, Multiple
      <4>2. CASE NameItem[cur[1]] # i
        BY <1>0, <3>5, <4>2 DEF Named
      <4> QED BY <4>1, <4>2
    <3>6. CASE b = cur
      <4>1. conf'[c].name = conf[c].name /\ conf'[b].name = n BY <1>4, <1>5, <2>4, <3>1, <3>6
      <4>2. conf[c].name # "" BY <1>0, <2>4, <3>1, <3>6 DEF Named
      <4> QED BY <2>4, <3>1, <3>2, <3>3, <3>5, <3>6, <4>1, <4>2
    <3>7. CASE c = cur
      <4>1. conf'[b].name = conf[b].name /\ conf'[c].name = n BY <1>4, <1>5, <2>4, <3>1, <3>7
      <4>2. Multiple(c) BY <3>1, <3>3 DEF Multiple
      <4> QED BY <2>4, <3>1, <3>5, <3>7, <4>1, <4>2
    <3> QED BY <3>4, <3>6, <3>7
  <2> QED BY <2>2, <2>3, <2>4
<1>11. Blocks'
  <2>1. given[cur] \in [ItemsOf[cur[1]] -> Values \union {"none"}] BY <1>0, <1>6 DEF Blocks
  <2>2. given'[cur] \in [ItemsOf[cur[1]] -> Values \union {"none"}] BY <1>7, <2>1
  <2>3. \A x \in DOMAIN given : given'[x] \in [ItemsOf[x[1]] -> Values \union {"none"}]
    BY <1>0, <1>7, <2>2 DEF Blocks
  <2> QED BY <1>0, <1>4, <1>7, <2>3 DEF Blocks
<1>12. Found'
  <2> SUFFICES ASSUME NEW x \in DOMAIN conf, NEW j \in ItemsOf[x[1]]
               PROVE  /\ j \in conf'[x].got <=> x \in DOMAIN given' /\ given'[x][j] # "none"
                      /\ j \in conf'[x].got => conf'[x].val[j] = given'[x][j]
    BY <1>4 DEF Found
  <2>1. /\ j \in conf[x].got <=> x \in DOMAIN given /\ given[x][j] # "none"
        /\ j \in conf[x].got => conf[x].val[j] = given[x][j]
    BY <1>0 DEF Found
  <2>2. CASE x # cur BY <1>4, <1>7, <2>1, <2>2
  <2>3. CASE x = cur
    <3>1. given[cur] \in [ItemsOf[cur[1]] -> Values \union {"none"}] BY <1>0, <1>6 DEF Blocks
    <3>2. CASE j = i
      BY <1>4, <1>5, <1>6, <1>7, <2>3, <3>1, <3>2
    <3>3. CASE j # i
      <4>1. given'[x][j] = given[x][j] BY <1>7, <2>3, <3>1, <3>3
      <4>2. conf'[x].val[j] = conf[x].val[j] BY <1>4, <1>5, <2>3, <3>3
      <4>3. j \in conf'[x].got <=> j \in conf[x].got BY <1>4, <1>5, <2>3, <3>3
      <4> QED BY <1>6, <1>7, <2>1, <2>3, <4>1, <4>2, <4>3
    <3> QED BY <3>2, <3>3
  <2> QED BY <2>2, <2>3
<1>13. Path' BY <1>0, <1>1, <1>7 DEF Path, Top
<1> QED BY <1>8, <1>9, <1>10, <1>11, <1>12, <1>13 DEF Sound

(* Load() opens the file: the copies are gone, nothing is found.           *)
LEMMA BeginSound ==
    ASSUME Sound, LoadBegins
    PROVE  Sound'
<1>0. Shape BY DEF Sound
<1>1. /\ conf' = [b \in {x \in DOMAIN conf : ~IsCopy(x)} |-> Cleaned(b)]
      /\ cur' = None /\ stack' = <<>> /\ given' = << >>
  BY DEF LoadBegins, Clean
<1>2. /\ DOMAIN conf' = {x \in DOMAIN conf : ~IsCopy(x)}
      /\ conf' = [b \in DOMAIN conf' |-> conf'[b]] /\ DOMAIN given' = {}
  BY <1>1
<1>3. \A b \in DOMAIN conf' : conf'[b] \in Block(b[1]) /\ conf'[b].got = {}
  <2> SUFFICES ASSUME NEW b \in DOMAIN conf'
               PROVE  conf'[b] \in Block(b[1]) /\ conf'[b].got = {}
    OBVIOUS
  <2>1. conf[b] \in Block(b[1]) BY <1>0, <1>2 DEF Shape
  <2>2. conf'[b] = [conf[b] EXCEPT !.found = FALSE, !.got = {}] BY <1>1, <1>2 DEF Cleaned
  <2> QED BY <2>1, <2>2 DEF Block
<1>4. \A s \in Sections : Copies(s)' = {} BY <1>2 DEF Copies
<1>5. Shape'
  <2>0. \A s \in Sections : ~IsCopy(Original(s)) BY DEF IsCopy, Original
  <2>1. \A s \in Sections : Original(s) \in DOMAIN conf' BY <1>0, <1>2, <2>0 DEF Shape
  <2>2. \A b \in DOMAIN conf' : b \in Sections \X Nat /\ (IsCopy(b) => Multiple(b))
    BY <1>0, <1>2 DEF Shape
  <2>3. \A s \in Sections : /\ IsFiniteSet(Copies(s)')
                            /\ \A b \in Copies(s)' : b[2] <= Cardinality(Copies(s)')
    BY <1>4, FS_EmptySet
  <2> QED BY <1>2, <1>3, <2>1, <2>2, <2>3 DEF Shape
<1>6. Place' BY <1>1 DEF Place
<1>7. Named' BY <1>2 DEF Named
<1>8. Blocks' BY <1>1, <1>2 DEF Blocks
<1>9. Found' BY <1>2, <1>3 DEF Found
<1>10. Path' BY <1>1 DEF Path, Top
<1> QED BY <1>5, <1>6, <1>7, <1>8, <1>9, <1>10 DEF Sound

(* FindEmpty() only sets values, of items that were not found.             *)
LEMMA DefaultsType ==
    ASSUME Sound
    PROVE  /\ DOMAIN WithDefaults(conf) = DOMAIN conf
           /\ WithDefaults(conf) = [b \in DOMAIN conf |-> WithDefaults(conf)[b]]
           /\ \A b \in DOMAIN conf :
               /\ WithDefaults(conf)[b] \in Block(b[1])
               /\ WithDefaults(conf)[b].name = conf[b].name
               /\ WithDefaults(conf)[b].got = conf[b].got
               /\ \A i \in ItemsOf[b[1]] : WithDefaults(conf)[b].val[i] =
                     IF i \notin conf[b].got /\ <<b[1], i>> \in Defaulted
                        /\ Reached(conf, b[1]) /\ (Multiple(b) => IsCopy(b))
                     THEN "default" ELSE conf[b].val[i]
<1>1. /\ DOMAIN WithDefaults(conf) = DOMAIN conf
      /\ WithDefaults(conf) = [b \in DOMAIN conf |-> WithDefaults(conf)[b]]
  BY DEF WithDefaults
<1>2. ASSUME NEW b \in DOMAIN conf
      PROVE  /\ WithDefaults(conf)[b] \in Block(b[1])
             /\ WithDefaults(conf)[b].name = conf[b].name
             /\ WithDefaults(conf)[b].got = conf[b].got
             /\ \A i \in ItemsOf[b[1]] : WithDefaults(conf)[b].val[i] =
                   IF i \notin conf[b].got /\ <<b[1], i>> \in Defaulted
                      /\ Reached(conf, b[1]) /\ (Multiple(b) => IsCopy(b))
                   THEN "default" ELSE conf[b].val[i]
  <2> DEFINE w == [i \in ItemsOf[b[1]] |->
                     IF i \notin conf[b].got /\ <<b[1], i>> \in Defaulted
                        /\ Reached(conf, b[1]) /\ (Multiple(b) => IsCopy(b))
                     THEN "default" ELSE conf[b].val[i]]
  <2>1. conf[b] \in Block(b[1]) BY DEF Sound, Shape
  <2>2. WithDefaults(conf)[b] = [conf[b] EXCEPT !.val = w] BY DEF WithDefaults
  <2>3. w \in [ItemsOf[b[1]] -> Values \union {"stale", "default"}] BY <2>1 DEF Block
  <2>4. \A i \in ItemsOf[b[1]] : w[i] =
                   IF i \notin conf[b].got /\ <<b[1], i>> \in Defaulted
                      /\ Reached(conf, b[1]) /\ (Multiple(b) => IsCopy(b))
                   THEN "default" ELSE conf[b].val[i]
    OBVIOUS
  <2> HIDE DEF w
  <2>5. /\ WithDefaults(conf)[b] \in Block(b[1])
        /\ WithDefaults(conf)[b].name = conf[b].name
        /\ WithDefaults(conf)[b].got = conf[b].got
        /\ WithDefaults(conf)[b].val = w
    BY <2>1, <2>2, <2>3 DEF Block
  <2> QED BY <2>4, <2>5
<1> QED BY <1>1, <1>2

(* The file ends: what it has given stays as it is.                        *)
LEMMA EndSound ==
    ASSUME Sound, LoadEnds
    PROVE  Sound'
<1>0. Shape /\ Place /\ Named /\ Blocks /\ Found /\ Path BY DEF Sound
<1>1. conf' = WithDefaults(conf) /\ UNCHANGED <<cur, stack, given>> BY DEF LoadEnds
<1>2. /\ DOMAIN conf' = DOMAIN conf /\ conf' = [b \in DOMAIN conf' |-> conf'[b]]
      /\ \A b \in DOMAIN conf :
          /\ conf'[b] \in Block(b[1])
          /\ conf'[b].name = conf[b].name /\ conf'[b].got = conf[b].got
          /\ \A i \in ItemsOf[b[1]] : i \in conf[b].got => conf'[b].val[i] = conf[b].val[i]
  BY <1>1, DefaultsType
<1>3. \A s \in Sections : Copies(s)' = Copies(s) BY <1>2 DEF Copies
<1>4. Shape' BY <1>0, <1>2, <1>3 DEF Shape
<1>5. Place' BY <1>0, <1>1, <1>2 DEF Place, Multiple, IsCopy
<1>6. Named'
  <2> SUFFICES ASSUME NEW b \in DOMAIN conf, IsCopy(b)
               PROVE  /\ conf'[b].name = "" => b = cur
                      /\ conf'[b].name # "" => /\ NameItem[b[1]] \in conf'[b].got
                                               /\ conf'[b].name = conf'[b].val[NameItem[b[1]]]
                      /\ \A c \in Copies(b[1])' :
                            b # c /\ conf'[b].name # "" => conf'[c].name # conf'[b].name
    BY <1>1, <1>2 DEF Named
  <2>1. /\ conf[b].name = "" => b = cur
        /\ conf[b].name # "" => /\ NameItem[b[1]] \in conf[b].got
                                /\ conf[b].name = conf[b].val[NameItem[b[1]]]
        /\ \A c \in Copies(b[1]) :
              b # c /\ conf[b].name # "" => conf[c].name # conf[b].name
    BY <1>0 DEF Named
  <2>2. b[1] \in Sections /\ conf[b].got \in SUBSET ItemsOf[b[1]] BY <1>0 DEF Shape, Block
  <2>3. \A c \in Copies(b[1]) : c \in DOMAIN conf BY DEF Copies
  <2>4. Copies(b[1])' = Copies(b[1]) BY <1>3, <2>2
  <2> QED BY <1>2, <2>1, <2>2, <2>3, <2>4
<1>7. Blocks' BY <1>0, <1>1, <1>2 DEF Blocks
<1>8. Found'
  <2> SUFFICES ASSUME NEW b \in DOMAIN conf, NEW i \in ItemsOf[b[1]]
               PROVE  /\ i \in conf'[b].got <=> b \in DOMAIN given' /\ given'[b][i] # "none"
                      /\ i \in conf'[b].got => conf'[b].val[i] = given'[b][i]
    BY <1>2 DEF Found
  <2>1. /\ i \in conf[b].got <=> b \in DOMAIN given /\ given[b][i] # "none"
        /\ i \in conf[b].got => conf[b].val[i] = given[b][i]
    BY <1>0 DEF Found
  <2> QED BY <1>1, <1>2, <2>1
<1>9. Path' BY <1>0, <1>1 DEF Path, Top
<1> QED BY <1>4, <1>5, <1>6, <1>7, <1>8, <1>9 DEF Sound

(* A file that is not refused has set every item that has a default.       *)
LEMMA DefaultsSet ==
    ASSUME Sound, LoadEnds, ~Refused
    PROVE  RunsOnItsFile'
<1>0. Shape /\ Blocks /\ Found /\ Path BY DEF Sound
<1>1. conf' = WithDefaults(conf) /\ UNCHANGED <<cur, stack, given>> BY DEF LoadEnds
<1>2. DOMAIN conf' = DOMAIN conf BY <1>1, DefaultsType
<1>3. stack = <<>>
  <2>1. cur = None BY DEF Refused
  <2>2. stack \in Seq(Sections \X Nat) /\ cur = Top BY <1>0 DEF Path
  <2>3. ASSUME stack # <<>> PROVE FALSE
    <3>1. stack[Len(stack)] \in Sections \X Nat BY <2>2, <2>3
    <3>2. stack[Len(stack)] = None BY <2>1, <2>2, <2>3 DEF Top, Last
    <3> QED BY <3>1, <3>2 DEF None
  <2> QED BY <2>3
<1>4. \A s \in Sections : Reached(conf, s)
  <2> SUFFICES ASSUME NEW s \in Sections, NEW t \in Up(Up({s}))
               PROVE  conf[Original(t)].found \/ Optional(t)
    BY DEF Reached
  <2>1. t \in Sections BY DEF Up
  <2>2. CASE ParentOf[t] = "none" BY <2>1, <2>2 DEF Refused, MissingSection
  <2>3. CASE ParentOf[t] # "none" BY <2>1, <2>3 DEF Optional
  <2> QED BY <2>2, <2>3
<1>5. ASSUME NEW b \in DOMAIN conf, ~Multiple(b) \/ IsCopy(b), NEW i \in ItemsOf[b[1]],
             Meant(b, i) # "stale"
      PROVE  conf'[b].val[i] = Meant(b, i)
  <2>1. b[1] \in Sections /\ Reached(conf, b[1]) BY <1>0, <1>4 DEF Shape
  <2>2. conf'[b].val[i] =
          IF i \notin conf[b].got /\ <<b[1], i>> \in Defaulted
             /\ Reached(conf, b[1]) /\ (Multiple(b) => IsCopy(b))
          THEN "default" ELSE conf[b].val[i]
    BY <1>1, <1>5, DefaultsType
  <2>3. /\ i \in conf[b].got <=> b \in DOMAIN given /\ given[b][i] # "none"
        /\ i \in conf[b].got => conf[b].val[i] = given[b][i]
    BY <1>0, <1>5 DEF Found
  <2>4. CASE i \in conf[b].got BY <2>2, <2>3, <2>4 DEF Meant
  <2>5. CASE i \notin conf[b].got BY <1>5, <2>1, <2>2, <2>3, <2>5 DEF Meant
  <2> QED BY <2>4, <2>5
<1>6. {b \in DOMAIN conf : IsCopy(b)} = {b \in DOMAIN given : Multiple(b)}
  BY <1>0 DEF Shape, Blocks
<1>7. \A b, i : Meant(b, i)' = Meant(b, i) BY <1>1 DEF Meant
<1>8. \A b \in DOMAIN conf' : ~Multiple(b) \/ IsCopy(b) =>
        \A i \in ItemsOf[b[1]] : Meant(b, i)' # "stale" => conf'[b].val[i] = Meant(b, i)'
  BY <1>2, <1>5, <1>7
<1>9. stack' = <<>> /\ {b \in DOMAIN conf' : IsCopy(b)} = {b \in DOMAIN given' : Multiple(b)}
  BY <1>1, <1>2, <1>3, <1>6
<1> QED BY <1>8, <1>9 DEF RunsOnItsFile

(* A file that is not refused has named all its copies.                    *)
LEMMA AllNamed ==
    ASSUME Named, cur = None, Shape
    PROVE  CopiesNamed
<1> SUFFICES ASSUME NEW s \in Sections, NEW b \in Copies(s), NEW c \in Copies(s)
             PROVE  /\ conf[b].name = conf[b].val[NameItem[s]] /\ conf[b].name # ""
                    /\ b # c => conf[b].name # conf[c].name
  BY DEF CopiesNamed
<1>1. b \in DOMAIN conf /\ IsCopy(b) /\ b[1] = s BY DEF Copies
<1>2. b # None BY <1>1 DEF IsCopy, None
<1>3. conf[b].name # "" BY <1>1, <1>2 DEF Named
<1> QED BY <1>1, <1>3 DEF Named

(* ConfigInv is inductive.                                                 *)
LEMMA ConfigStep ==
    ASSUME ConfigInv, [Next]_vars
    PROVE  ConfigInv'
<1>1. ASSUME stage' = "reading", ~error' => Sound' PROVE ConfigInv'
  BY <1>1 DEF ConfigInv, RunsOnItsFile, CopiesNamed
<1>2. CASE LoadBegins
  <2>1. Sound BY <1>2 DEF ConfigInv, LoadBegins
  <2> QED BY <1>1, <1>2, <2>1, BeginSound DEF LoadBegins
<1>3. CASE FileMissing
  BY <1>3 DEF FileMissing, ConfigInv, RunsOnItsFile, CopiesNamed
<1>4. CASE LoadEnds
  <2>1. CASE Refused
    BY <1>4, <2>1 DEF LoadEnds, ConfigInv, RunsOnItsFile, CopiesNamed
  <2>2. CASE ~Refused
    <3>1. ~error /\ cur = None BY <2>2 DEF Refused
    <3>2. Sound BY <1>4, <3>1 DEF ConfigInv, LoadEnds
    <3>3. Sound' BY <1>4, <3>2, EndSound
    <3>4. stage' = "running" /\ ~error' /\ cur' = None BY <1>4, <2>2, <3>1 DEF LoadEnds
    <3>5. RunsOnItsFile' BY <1>4, <2>2, <3>2, DefaultsSet
    <3>6. Named' /\ Shape' /\ cur' = None BY <3>3, <3>4 DEF Sound
    <3>7. (Named /\ cur = None /\ Shape => CopiesNamed)' BY AllNamed, PTL
    <3>8. CopiesNamed' BY <3>6, <3>7
    <3> QED BY <3>3, <3>4, <3>5, <3>8 DEF ConfigInv
  <2> QED BY <2>1, <2>2
<1>5. ASSUME Reading, Read PROVE stage' = "reading" /\ (~error => Sound)
  BY <1>5 DEF Reading, Read, ConfigInv
<1>6. CASE UnknownSectionLine
  BY <1>1, <1>5, <1>6 DEF UnknownSectionLine
<1>7. CASE CloseLine
  <2>1. stage' = "reading" /\ (~error => Sound) BY <1>5, <1>7 DEF CloseLine
  <2>2. ~error' => ~error BY <1>7 DEF CloseLine
  <2> QED BY <1>1, <1>7, <2>1, <2>2, CloseSound
<1>8. ASSUME NEW s \in Sections, SectionLine(s) PROVE ConfigInv'
  <2>1. stage' = "reading" /\ (~error => Sound) BY <1>5, <1>8 DEF SectionLine
  <2>2. ~error' => ~error BY <1>8 DEF SectionLine
  <2> QED BY <1>1, <1>8, <2>1, <2>2, SectionSound
<1>9. ASSUME NEW i, BadItemLine(i) PROVE ConfigInv'
  BY <1>1, <1>5, <1>9 DEF BadItemLine
<1>10. ASSUME NEW i, NEW v \in Values, ItemLine(i, v) PROVE ConfigInv'
  <2>1. stage' = "reading" /\ (~error => Sound) BY <1>5, <1>10 DEF ItemLine
  <2>2. ~error' => ~error BY <1>10 DEF ItemLine
  <2> QED BY <1>1, <1>10, <2>1, <2>2, ItemSound
<1>11. CASE UNCHANGED vars
  <2>1. UNCHANGED <<conf, cur, error, stage, stack, given>> BY <1>11 DEF vars
  <2>2. \A s : Copies(s)' = Copies(s) BY <2>1 DEF Copies
  <2>3. \A b, i : Meant(b, i)' = Meant(b, i) BY <2>1 DEF Meant
  <2>4. Shape => Shape' BY <2>1, <2>2 DEF Shape
  <2>5. Named => Named' BY <2>1, <2>2 DEF Named
  <2>6. Place /\ Blocks /\ Found /\ Path => Place' /\ Blocks' /\ Found' /\ Path'
    BY <2>1 DEF Place, Blocks, Found, Path, Top
  <2>7. RunsOnItsFile => RunsOnItsFile' BY <2>1, <2>3 DEF RunsOnItsFile
  <2>8. CopiesNamed => CopiesNamed'
    <3>1. CASE stage = "running"
      <4>1. Named' /\ Shape' /\ cur' = None BY <2>1, <2>4, <2>5, <3>1 DEF ConfigInv, Sound
      <4>2. (Named /\ cur = None /\ Shape => CopiesNamed)' BY AllNamed, PTL
      <4> QED BY <4>1, <4>2
    <3>2. CASE stage # "running" BY <2>1, <3>2 DEF CopiesNamed
    <3> QED BY <3>1, <3>2
  <2> QED BY <2>1, <2>4, <2>5, <2>6, <2>7, <2>8 DEF ConfigInv, Sound
<1> QED BY <1>2, <1>3, <1>4, <1>6, <1>7, <1>8, <1>9, <1>10, <1>11 DEF Next

(* ConfigInv holds before the first load.                                  *)
LEMMA ConfigInit == Init => ConfigInv
<1> SUFFICES ASSUME Init PROVE ConfigInv
  OBVIOUS
<1>1. /\ DOMAIN conf = {Original(s) : s \in Sections} /\ conf = [b \in DOMAIN conf |-> conf[b]]
      /\ \A b \in DOMAIN conf : conf[b] = Fresh(b[1])
      /\ DOMAIN given = {} /\ given = [b \in DOMAIN given |-> given[b]]
      /\ cur = None /\ stack = <<>>
  BY DEF Init
<1>2. \A b \in DOMAIN conf : b \in Sections \X Nat /\ ~IsCopy(b)
  BY <1>1 DEF Original, IsCopy
<1>3. \A b \in DOMAIN conf : conf[b] \in Block(b[1]) /\ conf[b].got = {}
  BY <1>1, FreshType
<1>4. \A s \in Sections : Copies(s) = {} BY <1>2 DEF Copies
<1>5. Shape
  <2>1. \A s \in Sections : /\ IsFiniteSet(Copies(s))
                            /\ \A b \in Copies(s) : b[2] <= Cardinality(Copies(s))
    BY <1>4, FS_EmptySet
  <2> QED BY <1>1, <1>2, <1>3, <2>1 DEF Shape
<1>6. Place /\ Named BY <1>1, <1>2 DEF Place, Named
<1>7. Blocks /\ Found BY <1>1, <1>2, <1>3 DEF Blocks, Found
<1>8. Path BY <1>1 DEF Path, Top
<1> QED BY <1>5, <1>6, <1>7, <1>8 DEF Init, ConfigInv, Sound, RunsOnItsFile, CopiesNamed

(* Every state of a process is one ConfigInv describes.                    *)
THEOREM ConfigInvariant == Spec => []ConfigInv
BY ConfigInit, ConfigStep, PTL DEF Spec

(* MyConfig::Load(), Clean(), FindEmpty(): a process runs on its last file *)
(* and the defaults, never on what an earlier load has left.               *)
THEOREM RunsOnItsFileHolds == Spec => []RunsOnItsFile
<1>1. ConfigInv => RunsOnItsFile BY DEF ConfigInv
<1> QED BY <1>1, ConfigInvariant, PTL

(* MyConfig::Load(), GetSection(): the copies of a MULTIPLE section have   *)
(* names, each its own, given by the file.                                 *)
THEOREM CopiesNamedHolds == Spec => []CopiesNamed
<1>1. ConfigInv => CopiesNamed BY DEF ConfigInv
<1> QED BY <1>1, ConfigInvariant, PTL
=============================================================================
