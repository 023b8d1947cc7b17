----------------------------- MODULE MCContainers -----------------------------
(* The list, the hash chains and the hash table, checked side by side: each   *)
(* behaviour uses one of them.  List heads are interchangeable, and so are   *)
(* the entries of the ring.                                                  *)
EXTENDS SequencesExt, Integers

CONSTANTS Heads, Entries, Nil

VARIABLES used,
          ring, ready, cursor,    \* MgList
          chain,                  \* MgHlist
          lines, table, memory, last   \* MgHashtable

Ring == INSTANCE MgList
Chains == INSTANCE MgHlist WITH Hnodes <- {"a", "b", "c", "d"}, NULL <- Nil

\* Keys by the int at their start: two collide, one is negative.
Key == {"a", "b", "c", "d"}
Ints == [k \in Key |-> CASE k = "a" -> 4 [] k = "b" -> 1 [] k = "c" -> -4 [] OTHER -> -3]
Numbers == [l \in 0 .. 2 |-> l]
Defaults == INSTANCE MgHashtable WITH N <- 3, Datum <- {"u", "v"}, None <- "none", Lost <- "lost",
                Reads <- Ints, LineKey <- Numbers, Default <- TRUE, MayFail <- TRUE, MaxNodes <- 3

\* Keys by their first character, as test1_cmp compares them; two lines
\* have the same key, and one key fits no line.
Chars == [k \in Key |-> CASE k = "a" -> 97 [] k = "b" -> 98 [] k = "c" -> 97 [] OTHER -> 122]
Letters == [l \in 0 .. 2 |-> IF l = 1 THEN 98 ELSE 97]
Compares == INSTANCE MgHashtable WITH N <- 3, Datum <- {"u", "v"}, None <- "none", Lost <- "lost",
                Reads <- Chars, LineKey <- Letters, Default <- FALSE, MayFail <- FALSE, MaxNodes <- 3

ASSUME Ring!ListAssumption /\ Chains!HlistAssumption
ASSUME Defaults!TableAssumption /\ Compares!TableAssumption

ringVars == <<ring, ready, cursor>>
tableVars == <<lines, table, memory, last>>
vars == <<used, ringVars, chain, tableVars>>

NoRing == ring = Nil /\ ready = Nil /\ cursor = Nil
NoTable == lines = Nil /\ table = Nil /\ memory = Nil /\ last = Nil

Init == \/ used = "ring" /\ Ring!Init /\ chain = Nil /\ NoTable
        \/ used = "chains" /\ Chains!Init /\ NoRing /\ NoTable
        \/ used = "default keys" /\ Defaults!Init /\ NoRing /\ chain = Nil
        \/ used = "compared keys" /\ Compares!Init /\ NoRing /\ chain = Nil

Next == \/ used = "ring" /\ Ring!Next /\ UNCHANGED <<used, chain, tableVars>>
        \/ used = "chains" /\ Chains!Next /\ UNCHANGED <<used, ringVars, tableVars>>
        \/ used = "default keys" /\ Defaults!Next /\ UNCHANGED <<used, ringVars, chain>>
        \/ used = "compared keys" /\ Compares!Next /\ UNCHANGED <<used, ringVars, chain>>

Spec == Init /\ [][Next]_vars

Alike == Permutations(Heads) \union Permutations(Entries)

-------------------------------------------------------------------------------

\* Next and prev pointers stay inverse among the nodes in use and no list
\* runs into another (mglist.c:11-56, 158-212); every pprev is the very place
\* that leads to its node (mglist.c:271-279); every node of the table is on
\* the line its key is looked up on (mghashtable.c:230-264).
LinksExact ==
    CASE used = "ring" -> Ring!Ring /\ Ring!ListsApart
      [] used = "chains" -> Chains!PprevExact /\ Chains!ChainsApart
      [] used = "compared keys" -> Compares!OnItsLine
      [] OTHER -> TRUE

\* Every call rearranges the sequences as the header says (mglist.h:31-118,
\* 440-475), and leaves every other entry where it is.
CallsRearrange == [][ /\ used = "ring" => Ring!Rearranges
                      /\ used = "chains" => Chains!Rearranges ]_vars

\* A safe iteration runs its body once for every entry that was on the list
\* when it began, in order, though the body may delete or move the current
\* entry, and is never led into a pointer mglist_del cleared
\* (mglist.h:185-201).
SafeWalkVisitsAll == used = "ring" => Ring!SafeWalkVisitsAll

\* For its callers the table is a map from keys to sequences of values, with
\* both kinds of comparison, until a failed allocation the code does not
\* check ends the program: MultiMap is implemented.
ImplementsMultiMap ==
    /\ used = "default keys" => Defaults!Table!Init
    /\ used = "compared keys" => Compares!Table!Init
    /\ [][ /\ used = "default keys" => Defaults!Table!Step
           /\ used = "compared keys" => Compares!Table!Step ]_vars
==============================================================================
