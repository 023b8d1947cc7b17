------------------------------- MODULE ZipArchive -------------------------------
(***************************************************************************)
(* A client of both libraries: it writes an archive, keeps what ZipClose   *)
(* or ZipGetMemory leaves, and reads it back entry by entry.               *)
(***************************************************************************)
EXTENDS ZipWriter, Unzip

vars == <<client, tzip, added, archive, outcome, tunzip, call, got, reply>>

InitArchive == Init /\ InitUnzip

\* The archive is read when it has been written.
NextArchive ==
    \/ ~tzip.closed /\ Writing /\ UNCHANGED reading
    \/ tzip.closed /\ Reading /\ UNCHANGED <<client, tzip, added, outcome>>

SpecArchive == InitArchive /\ [][NextArchive]_vars

-----------------------------------------------------------------------------
(* Properties.                                                             *)

AddedItem(n) ==
    [name |-> added[n].name, len |-> Len(added[n].data),
     siz |-> Len(Packed(added[n])) + IF added[n].secret THEN EncHead ELSE 0]
Same(name, other, ic) == IF ic THEN Lower(name) = Lower(other) ELSE name = other
NamedSo(name, ic) == {n \in DOMAIN added : Same(added[n].name, Slashed(name), ic)}

\* An archive that the writer finished without an error opens; it lists the
\* entries added, in their order and no others, with their names and sizes,
\* and finds the first that is called so (addCentral, mglite_zip.c:2660-2735,
\* against openArchive, setCurrentEntry and findEntry, mglite_unzip.c).
AddedIsFound ==
    /\ reply.call = "open" => reply.result = "ok"
    /\ reply.call = "count" => reply.item = Len(added)
    /\ reply.call = "get" =>
         IF reply.asked < Len(added) THEN reply.result = "ok" /\ reply.item = AddedItem(reply.asked + 1)
         ELSE reply.result = "notfound"
    /\ reply.call = "find" =>
         LET named == NamedSo(reply.asked[1], reply.asked[2])
         IN  IF named = {} THEN reply.result = "notfound"
             ELSE reply.result = "ok" /\ reply.item = [index |-> Min(named) - 1, item |-> AddedItem(Min(named))]

\* What is handed out of an entry is a beginning of what was added, and all
\* of it once the call says so, through whatever buffers, turns of readEntry
\* and calls after ZR_MORE; with a password it may end early (readEntry and
\* unzipEntry, mglite_unzip.c:3018-3168, 3796-3985).
ReadsWhatWasAdded ==
    got.entry # NoEntry =>
        LET entry == added[got.entry + 1]
        IN  /\ IsPrefix(got.bytes, entry.data)
            /\ (reply.call = "unzip" /\ reply.asked = got.entry /\ reply.result = "ok" /\ call = Idle
                  /\ ~entry.secret) => got.bytes = entry.data

\* A call that unpacks comes back: a turn of its loop that leaves everything
\* as it was would be followed by the same turn for ever (readEntry,
\* mglite_unzip.c:3031-3165).
TurnsGoOn == InLoop => Turned # [tunzip |-> tunzip, call |-> call]
================================================================================
