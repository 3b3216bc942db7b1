------------------------------- MODULE Shelf -------------------------------
(***************************************************************************)
(* What the manager of the collections promises: collections with a title  *)
(* and their document files, each collection by itself.  A collection is   *)
(* empty when it is added and nothing is left of it when it is removed,    *)
(* with one reservation: a collection that a kill took off the list, or    *)
(* that was open when all were cleared, is a stray, whose documents may    *)
(* turn up again when a collection is added under its id.                  *)
(***************************************************************************)
CONSTANTS
    ColId,      \* collection ids
    Title,      \* collection titles
    File        \* document files

VARIABLES
    titles,     \* the collections there are: id to title
    files,      \* files[id]: the document files of collection id
    strays      \* ids of strays

vars == <<titles, files, strays>>

TypeOK == /\ DOMAIN titles \subseteq ColId
          /\ titles \in [DOMAIN titles -> Title]
          /\ files \in [ColId -> SUBSET File]
          /\ strays \subseteq ColId \ DOMAIN titles
          /\ \A id \in ColId : files[id] # {} => id \in DOMAIN titles \cup strays

Titled(id, t) == [i \in DOMAIN titles \cup {id} |-> IF i = id THEN t ELSE titles[i]]

Init == /\ titles = [i \in {} |-> 0]
        /\ files = [id \in ColId |-> {}]
        /\ strays = {}

Add(id, t) == /\ id \notin DOMAIN titles
              /\ titles' = Titled(id, t)
              /\ strays' = strays \ {id}
              /\ UNCHANGED files

Retitle(id, t) == /\ id \in DOMAIN titles
                  /\ titles' = Titled(id, t)
                  /\ UNCHANGED <<files, strays>>

Remove(id) == /\ id \in DOMAIN titles
              /\ titles' = [i \in DOMAIN titles \ {id} |-> titles[i]]
              /\ files' = [files EXCEPT ![id] = {}]
              /\ UNCHANGED strays

\* The documents of one collection change, of a stray one if it is open.
Use(id) == /\ id \in DOMAIN titles \cup strays
           /\ files' \in {[files EXCEPT ![id] = S] : S \in SUBSET File}
           /\ UNCHANGED <<titles, strays>>

\* All listed collections go but for the documents of the open one, if any.
Clear == /\ titles' = [i \in {} |-> 0]
         /\ \E Open \in {{}} \cup {{id} : id \in ColId} :
                /\ files' = [id \in ColId |-> IF id \in DOMAIN titles \ Open
                                              THEN {} ELSE files[id]]
                /\ strays' = strays \cup Open

\* A kill takes collections off the list, and documents from one collection.
Lose == /\ DOMAIN titles' \subseteq DOMAIN titles
        /\ titles' = [id \in DOMAIN titles' |-> titles[id]]
        /\ \E id \in ColId, S \in SUBSET File : files' = [files EXCEPT ![id] = @ \cap S]
        /\ strays' = {id \in ColId \ DOMAIN titles' : files'[id] # {}}

\* A stray without documents is a collection there is not.
Forget == /\ strays' = {id \in strays : files[id] # {}}
          /\ UNCHANGED <<titles, files>>

Next == \/ \E id \in ColId, t \in Title : Add(id, t) \/ Retitle(id, t)
        \/ \E id \in ColId : Remove(id) \/ Use(id)
        \/ Clear
        \/ Lose
        \/ Forget

Spec == Init /\ [][Next]_vars
=============================================================================
