------------------------------- MODULE Config -------------------------------
(***************************************************************************)
(* The configuration of a process (src/src/core/config.cpp, config.h):     *)
(* MyConfig::Load() reads the file line by line into sections that exist   *)
(* before it and outlive it, when the process starts and again on SIGHUP   *)
(* (src/src/core/minbif.cpp).  A section that is MULTIPLE is copied for    *)
(* each of its blocks; the copies of one load are deleted by the next.     *)
(*                                                                         *)
(* Beside the parser runs its specification: the brackets of the file give *)
(* each line its block, and the last value a block gives an item counts.   *)
(***************************************************************************)
EXTENDS Integers, FiniteSets, Sequences, SequencesExt

CONSTANTS Sections,   \* labels of sections, unique here
          ParentOf,   \* the section each one stands in, "none" at the top
          TypeOf,     \* "NORMAL", "OPTIONAL" or "MULTIPLE"
          ItemsOf,    \* labels of the items of each
          Defaulted,  \* <<section, item>> with a default value
          NameItem,   \* the item that names each block, "none" if no item
          Values,     \* correct values
          MaxLines,   \* bound: lines of a file
          MaxLoads    \* bound: loads of a process

(* The sections of S and those they stand in.                              *)
Up(S) == S \union ({ParentOf[s] : s \in S} \ {"none"})

(* The sections of Minbif::Minbif(): three levels; none stands in a        *)
(* MULTIPLE one (its copy would not be the parent of what is in it), and   *)
(* only those at the top are NORMAL (Load() only misses those).            *)
ASSUME ConfigAssumption ==
    /\ ParentOf \in [Sections -> Sections \union {"none"}] /\ "none" \notin Sections
    /\ TypeOf \in [Sections -> {"NORMAL", "OPTIONAL", "MULTIPLE"}]
    /\ \A s \in Sections :
          /\ ParentOf[s] # "none" => TypeOf[ParentOf[s]] # "MULTIPLE" /\ TypeOf[s] # "NORMAL"
          /\ Up(Up(Up({s}))) = Up(Up({s}))
    /\ \A s \in Sections : TypeOf[s] = "MULTIPLE" => NameItem[s] \in ItemsOf[s]
    /\ "none" \notin Values
    /\ MaxLines \in Nat /\ MaxLoads \in Nat

VARIABLES
    conf,    \* the sections, <<label, 0>>, and the copies, <<label, n>>
    cur,     \* Load(): the section the line stands in
    error,   \* Load(): an error was printed with Error()
    stage,   \* "out", "reading", "running", "quitting"
    lines,   \* lines read by this load
    loads,   \* loads begun
    stack,   \* specification: the blocks open at this line
    given    \* specification: what the file says of each block so far

vars == <<conf, cur, error, stage, lines, loads, stack, given>>

None == <<"none", 0>>
Original(s) == <<s, 0>>
IsCopy(b) == b[2] > 0
Multiple(b) == TypeOf[b[1]] = "MULTIPLE"
Optional(s) == TypeOf[s] \in {"OPTIONAL", "MULTIPLE"}
Parent(b) == Original(ParentOf[b[1]])

(* ConfigItem: its value is not initialised, and "stale" until it is set.  *)
FreshItems(s) == [i \in ItemsOf[s] |-> "stale"]

(* A ConfigSection: found in the file, its name, its items that were found *)
(* and their values.                                                       *)
Fresh(s) == [found |-> FALSE, name |-> "", got |-> {}, val |-> FreshItems(s)]

(* ConfigSection(ConfigSection&): a Clone() of an item keeps no value.     *)
CopyOf(s) == [Fresh(s) EXCEPT !.found = TRUE]

Init ==
    /\ conf = [b \in {Original(s) : s \in Sections} |-> Fresh(b[1])]
    /\ cur = None /\ error = FALSE /\ stage = "out"
    /\ lines = 0 /\ loads = 0
    /\ stack = <<>> /\ given = << >>
-----------------------------------------------------------------------------
(* Mutant: the items found by the last load stay found.                    *)
CleanedKeepsFound(b) == [conf[b] EXCEPT !.found = FALSE]

(* ConfigSection::Clean(): values and names stay.                          *)
Cleaned(b) == [conf[b] EXCEPT !.found = FALSE, !.got = {}]

(* MyConfig::Clean(): copies go, nothing is found.                         *)
Clean == [b \in {x \in DOMAIN conf : ~IsCopy(x)} |-> Cleaned(b)]

(* MyConfig::Load() opens the file: Minbif::main(), or Minbif::rehash() in *)
(* a process that runs.                                                    *)
LoadBegins ==
    /\ stage \in {"out", "running"} /\ loads < MaxLoads
    /\ stage' = "reading" /\ loads' = loads + 1
    /\ conf' = Clean
    /\ cur' = None /\ error' = FALSE /\ lines' = 0
    /\ stack' = <<>> /\ given' = << >>

(* No file: Load() returns before it touches anything; the process quits.  *)
FileMissing ==
    /\ stage \in {"out", "running"}
    /\ stage' = "quitting"
    /\ UNCHANGED <<conf, cur, error, lines, loads, stack, given>>

Reading == stage = "reading" /\ lines < MaxLines
Read == lines' = lines + 1 /\ UNCHANGED <<stage, loads>>

Top == IF stack = <<>> THEN None ELSE Last(stack)
-----------------------------------------------------------------------------
(* The blocks and values of the file, by its brackets.                     *)
GivenBlock(s) ==
    IF TypeOf[s] = "MULTIPLE"
    THEN <<s, 1 + Cardinality({b \in DOMAIN given : b[1] = s})>> ELSE Original(s)
Opened(b) ==
    IF b \in DOMAIN given THEN given
    ELSE [x \in DOMAIN given \union {b} |->
             IF x = b THEN [i \in ItemsOf[b[1]] |-> "none"] ELSE given[x]]

(* GetSectionClones(label)                                                 *)
Copies(s) == {b \in DOMAIN conf : b[1] = s /\ IsCopy(b)}

(* "label {": GetSection() below the section the line stands in, and a     *)
(* copy if it is MULTIPLE.                                                 *)
SectionLine(s) ==
    /\ Reading /\ Read
    /\ IF ParentOf[s] = cur[1]
       THEN LET b == IF TypeOf[s] = "MULTIPLE" THEN <<s, 1 + Cardinality(Copies(s))>>
                     ELSE Original(s)
                found == [conf EXCEPT ![Original(s)].found = TRUE]
            IN  /\ conf' = [x \in DOMAIN conf \union {b} |->
                               IF x \in DOMAIN conf THEN found[x] ELSE CopyOf(s)]
                /\ cur' = b /\ UNCHANGED error
       ELSE cur' = None /\ error' = TRUE /\ UNCHANGED conf
    /\ IF ParentOf[s] = Top[1]
       THEN stack' = Append(stack, GivenBlock(s)) /\ given' = Opened(GivenBlock(s))
       ELSE UNCHANGED <<stack, given>>

(* A section no one has defined.                                           *)
UnknownSectionLine ==
    /\ Reading /\ Read
    /\ cur' = None /\ error' = TRUE
    /\ UNCHANGED <<conf, stack, given>>

(* "}": a copy needs its name; back to the parent.                         *)
CloseLine ==
    /\ Reading /\ Read
    /\ IF cur = None
       THEN error' = TRUE /\ UNCHANGED cur
       ELSE /\ error' = (error \/ (IsCopy(cur) /\ conf[cur].name = ""))
            /\ cur' = Parent(cur)
    /\ stack' = IF stack = <<>> THEN stack ELSE Front(stack)
    /\ UNCHANGED <<conf, given>>

(* Mutant: the names of the copies are not compared.                       *)
NameNeverTaken(s, v) == FALSE

(* GetSection(label, name): another block, a copy or not, has this name.   *)
NameTaken(s, v) ==
    TypeOf[s] = "MULTIPLE" /\ \E b \in DOMAIN conf : b[1] = s /\ conf[b].name = v

GivenValue(i, v) ==
    given' = IF stack # <<>> /\ i \in ItemsOf[Top[1]]
             THEN [given EXCEPT ![Top][i] = v] ELSE given

(* The block b with the item found, set, and its name if that item gives it*)
WithItem(b, i, v) ==
    [conf[b] EXCEPT !.got = @ \union {i}, !.val[i] = v,
                    !.name = IF NameItem[b[1]] = i THEN v ELSE @]

(* "label = value"                                                         *)
ItemLine(i, v) ==
    /\ Reading /\ Read
    /\ GivenValue(i, v)
    /\ IF cur = None \/ i \notin ItemsOf[cur[1]]
          \/ (NameItem[cur[1]] = i /\ NameTaken(cur[1], v))
       THEN error' = TRUE /\ UNCHANGED conf
       ELSE conf' = [conf EXCEPT ![cur] = WithItem(cur, i, v)] /\ UNCHANGED error
    /\ UNCHANGED <<cur, stack>>

(* A value of the wrong type or out of bounds: SetValue() may have stored  *)
(* it.  Without any value nothing is stored.                               *)
BadItemLine(i) ==
    /\ Reading /\ Read
    /\ error' = TRUE
    /\ \/ UNCHANGED conf
       \/ /\ cur # None /\ i \in ItemsOf[cur[1]]
          /\ \E v \in {"bad", conf[cur].val[i]} :
                conf' = [conf EXCEPT ![cur].got = @ \union {i}, ![cur].val[i] = v]
    /\ UNCHANGED <<cur, stack, given>>
-----------------------------------------------------------------------------
(* FindEmpty() reaches the sections below what is found or optional.       *)
Reached(c, s) == \A t \in Up(Up({s})) : c[Original(t)].found \/ Optional(t)

(* ConfigSection::FindEmpty(): the items the file does not give get their  *)
(* default value.  That one is missing is printed and forgotten.           *)
WithDefaults(c) ==
    [b \in DOMAIN c |->
        [c[b] EXCEPT !.val = [i \in ItemsOf[b[1]] |->
            IF i \notin c[b].got /\ <<b[1], i>> \in Defaulted
               /\ Reached(c, b[1]) /\ (Multiple(b) => IsCopy(b))
            THEN "default" ELSE @[i]]]]

MissingSection ==
    \E s \in Sections :
        ParentOf[s] = "none" /\ ~Optional(s) /\ ~conf[Original(s)].found

(* The file ends: refused on an error, a block left open, or a section     *)
(* that is missing.                                                        *)
Refused == error \/ cur # None \/ MissingSection

(* Load() returns: Minbif::main() starts or exits, Minbif::rehash() goes   *)
(* on or quits.                                                            *)
LoadEnds ==
    /\ stage = "reading"
    /\ conf' = WithDefaults(conf)
    /\ stage' = IF Refused THEN "quitting" ELSE "running"
    /\ UNCHANGED <<cur, error, lines, loads, stack, given>>

Next ==
    \/ LoadBegins \/ FileMissing \/ LoadEnds
    \/ UnknownSectionLine \/ CloseLine
    \/ \E s \in Sections : SectionLine(s)
    \/ \E i \in UNION {ItemsOf[s] : s \in Sections} :
        BadItemLine(i) \/ \E v \in Values : ItemLine(i, v)

Spec == Init /\ [][Next]_vars
-----------------------------------------------------------------------------
(* What the file and the defaults make of an item.                         *)
Meant(b, i) ==
    IF b \in DOMAIN given /\ given[b][i] # "none" THEN given[b][i]
    ELSE IF <<b[1], i>> \in Defaulted THEN "default" ELSE "stale"

(* A process runs on what its last file says: every item it may read has   *)
(* the last value of its block in that file, else the default, and never   *)
(* what an earlier load left in the sections that outlive it.  Items that  *)
(* no default and no line give a value are left out.                       *)
RunsOnItsFile ==
    stage = "running" =>
        /\ stack = <<>>
        /\ \A b \in DOMAIN conf : ~Multiple(b) \/ IsCopy(b) =>
            \A i \in ItemsOf[b[1]] :
                Meant(b, i) # "stale" => conf[b].val[i] = Meant(b, i)
        /\ {b \in DOMAIN conf : IsCopy(b)} = {b \in DOMAIN given : Multiple(b)}

(* The copies of a MULTIPLE section have names, each its own, and the name *)
(* is the value of the item that gives it: OPER looks one up by its login. *)
CopiesNamed ==
    stage = "running" =>
        \A s \in Sections : \A b, c \in Copies(s) :
            /\ conf[b].name = conf[b].val[NameItem[s]] /\ conf[b].name # ""
            /\ b # c => conf[b].name # conf[c].name
=============================================================================
