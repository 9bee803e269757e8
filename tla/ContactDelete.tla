---------------------------- MODULE ContactDelete ---------------------------
(***************************************************************************)
(* A contact is deleted from the editor's list: its row at once, its copy    *)
(* at Wavelog as an afterthought, by the id the list showed.  Meanwhile it   *)
(* may be uploaded, downloaded again or deleted on the server, and the list  *)
(* may not know yet.                                                        *)
(***************************************************************************)
EXTENDS Integers

CONSTANTS MaxCopies         \* copies the server ever makes

VARIABLES
    row, listed,            \* the row's Wavelog id, 0 for none, or Gone; as the list has it
    server, made,           \* the copies on the server; how many it made
    upload,                 \* none, on the wire, or the id that the server answered
    deletion,               \* none, or the id to delete remotely, before and after the row's
    toast,                  \* what the last deletion reported
    shared, offline         \* a shared club station; no network

deleteVars == <<row, listed, server, made, upload, deletion, toast, shared, offline>>

Gone == -1
Copies == 1..MaxCopies
NoWork == [stage |-> "none", id |-> 0]

DeleteTypeOK ==
    /\ row \in {Gone, 0} \cup Copies /\ listed \in {Gone, 0} \cup Copies
    /\ server \subseteq Copies /\ made \in 0..MaxCopies
    /\ upload \in [stage : {"none", "wire", "answered"}, id : 0..MaxCopies]
    /\ deletion \in [stage : {"none", "begun", "local"}, id : 0..MaxCopies]
    /\ toast \in {"none", "removed", "warned", "local"}
    /\ shared \in BOOLEAN /\ offline \in BOOLEAN

DeleteInit ==
    /\ row = 0 /\ listed = 0 /\ server = {} /\ made = 0 /\ upload = NoWork /\ deletion = NoWork
    /\ toast = "none" /\ shared \in BOOLEAN /\ offline \in BOOLEAN

-----------------------------------------------------------------------------
(* The deletion. *)

\* execAction after "yes": not for a contact the list shows as linked, on a shared station.
Confirm ==
    /\ listed # Gone /\ deletion = NoWork /\ ~(shared /\ listed > 0)
    /\ deletion' = [stage |-> "begun", id |-> listed]
    /\ toast' = "none" /\ UNCHANGED <<row, listed, server, made, upload, shared, offline>>

\* DeleteQSO; if it fails the copy is not touched.
DeleteRow ==
    /\ deletion.stage = "begun"
    /\ \/ row' = Gone /\ deletion' = [deletion EXCEPT !.stage = "local"]
       \/ UNCHANGED row /\ deletion' = NoWork
    /\ UNCHANGED <<listed, server, made, upload, toast, shared, offline>>

Tried == deletion.id > 0 /\ ~offline /\ ~shared

\* wavelog.DeleteQSO, where "not_found" is as good as deleted; the request or its answer
\* may be lost.
DeleteCopy ==
    /\ deletion.stage = "local" /\ deletion' = NoWork
    /\ IF ~Tried THEN toast' = "local" /\ UNCHANGED server
       ELSE \/ server' = server \ {deletion.id} /\ toast' \in {"removed", "warned"}
            \/ toast' = "warned" /\ UNCHANGED server
    /\ UNCHANGED <<row, listed, made, upload, shared, offline>>

\* The completion, the operator's paging and every other reason to read the page.
ReadPage ==
    /\ listed # row /\ listed' = row
    /\ UNCHANGED <<row, server, made, upload, deletion, toast, shared, offline>>

-----------------------------------------------------------------------------
(* The rest of the traffic with Wavelog. *)

StartUpload ==
    /\ row = 0 /\ ~offline /\ upload = NoWork /\ upload' = [stage |-> "wire", id |-> 0]
    /\ UNCHANGED <<row, listed, server, made, deletion, toast, shared, offline>>

\* The server makes a copy, and its answer arrives or is lost.
ServerStores ==
    /\ upload.stage = "wire" /\ made < MaxCopies /\ made' = made + 1 /\ server' = server \cup {made'}
    /\ upload' \in {NoWork, [stage |-> "answered", id |-> made']}
    /\ UNCHANGED <<row, listed, deletion, toast, shared, offline>>

UploadFails ==
    /\ upload.stage = "wire" /\ upload' = NoWork
    /\ UNCHANGED <<row, listed, server, made, deletion, toast, shared, offline>>

\* SetWavelogIDChecked writes the id, if there is still a row.
Attach ==
    /\ upload.stage = "answered" /\ upload' = NoWork /\ row' = IF row = Gone THEN Gone ELSE upload.id
    /\ UNCHANGED <<listed, server, made, deletion, toast, shared, offline>>

\* A download links a row without an id to the copy, and brings back one that is gone.
DownloadCopy(c) ==
    /\ c \in server /\ row \in {Gone, 0} /\ ~offline /\ row' = c
    /\ UNCHANGED <<listed, server, made, upload, deletion, toast, shared, offline>>

\* Somebody deletes a copy; a PATCH that finds it gone unlinks the row.
ServerDeletes(c) ==
    /\ c \in server /\ server' = server \ {c} /\ row' \in {row, IF row = c THEN 0 ELSE row}
    /\ UNCHANGED <<listed, made, upload, deletion, toast, shared, offline>>

Network ==
    /\ offline' = ~offline
    /\ UNCHANGED <<row, listed, server, made, upload, deletion, toast, shared>>

DeleteNext ==
    \/ Confirm \/ DeleteRow \/ DeleteCopy \/ ReadPage \/ StartUpload \/ ServerStores \/ UploadFails
    \/ Attach \/ Network
    \/ \E c \in Copies : DownloadCopy(c) \/ ServerDeletes(c)

DeleteSpec == DeleteInit /\ [][DeleteNext]_deleteVars

-----------------------------------------------------------------------------
\* "Deleted, removed from Wavelog" is said only when no copy is left, whatever was on the
\* wire and however old the list was: the row cannot come back by a download, unless a
\* retried upload whose answer was lost had made a second copy.
RemovedIsGone == toast = "removed" /\ made <= 1 => server = {}

==============================================================================
