--------------------------- MODULE OfflineDrafts ---------------------------
(***************************************************************************)
(* The drafts a browser keeps of one file (DocumentRegistry and            *)
(* offlineDrafts.ts in apps/web/src/lib): every edit is also written to    *)
(* IndexedDB, so that it survives the page; a page that opens the file     *)
(* archives a draft it finds before it writes its own, and takes it up     *)
(* when the file has not moved on since.                                   *)
(*                                                                         *)
(* One page of the browser has the file open at a time.  A page may go at  *)
(* any moment, with writes to IndexedDB and one save under way.            *)
(***************************************************************************)
EXTENDS Integers, Sequences, FiniteSets, SequencesExt

CONSTANTS Texts, FirstText,
          MaxRevision, MaxVersion, MaxLives   \* bounds: edits of a page, versions, pages

VARIABLES
  server,      \* the text of every version of the file
  active,      \* the draft in IndexedDB, or NoDraft
  recoveries,  \* the archived drafts
  page,        \* the entry of the registry, or Closed
  request,     \* the save under way, or NoRequest
  lives,       \* pages opened so far
  seen        \* history: the texts that the buffer of this page held or its user discarded

vars == <<server, active, recoveries, page, request, lives, seen>>

Closed    == [phase |-> "closed"]
NoDraft   == [content |-> "", base |-> 0]
NoRequest == [awaited |-> FALSE, content |-> "", base |-> 0, revision |-> 0, written |-> 0]
Open      == page.phase # "closed"
Dirty(p)  == p.local # p.acked

\* The session's listener: its state is queued to be written, a clean one as the
\* removal of the draft.  Writing the same twice in a row changes nothing.
Listened(p) ==
  LET write == IF Dirty(p) THEN [content |-> p.content, base |-> p.version] ELSE NoDraft IN
  [p EXCEPT !.writes = IF @ # <<>> /\ Last(@) = write THEN @ ELSE Append(@, write)]

\* The page shows p.
Shows(p) == page' = p /\ seen' = seen \cup {p.content}

-----------------------------------------------------------------------------
\* open: a document read from the server some time ago, or cached.  Besides its
\* version the page notes, for the properties, the version its text was written
\* against.
OpenPage(version) ==
  /\ ~Open /\ lives < MaxLives /\ lives' = lives + 1
  /\ page' = [phase |-> "load", content |-> server[version], version |-> version,
              written |-> version, local |-> 0, acked |-> 0, error |-> FALSE,
              found |-> NoDraft, writes |-> <<>>]
  /\ seen' = {server[version]}
  /\ UNCHANGED <<server, active, recoveries, request>>

\* The end of recoverDrafts: the draft is taken up only if nothing was typed and
\* the file has not moved on meanwhile.
TakesUp(p) == p.local = 0 /\ p.found.base = p.version

Recovered(p) ==
  IF TakesUp(p) /\ p.found.content # p.content
  THEN Listened([p EXCEPT !.phase = "ready", !.content = p.found.content,
                          !.local = @ + 1, !.error = FALSE, !.written = p.found.base])
  ELSE [p EXCEPT !.phase = "ready"]

\* recoverDrafts reads the draft and the archive ...
ReadDrafts ==
  /\ page.phase = "load"
  /\ LET p == [page EXCEPT !.found = active] IN
     Shows(CASE active = NoDraft \/ active.content = page.content -> [page EXCEPT !.phase = "ready"]
             [] active # NoDraft /\ active.content # page.content ->
                  IF active \in recoveries THEN Recovered(p) ELSE [p EXCEPT !.phase = "archive"])
  /\ UNCHANGED <<server, active, recoveries, request, lives>>

\* ... archives the draft, and goes on.
ArchiveDraft ==
  /\ page.phase = "archive"
  /\ recoveries' = recoveries \cup {page.found}
  /\ Shows(Recovered(page))
  /\ UNCHANGED <<server, active, request, lives>>

\* IndexedDB refuses: nothing is archived and this page writes no drafts.
DraftsFail ==
  /\ page.phase \in {"load", "archive"}
  /\ page' = [page EXCEPT !.phase = "failed"]
  /\ UNCHANGED <<server, active, recoveries, request, lives, seen>>

\* The writes wait for recoverDrafts and for each other.
MayWriteMutant == page.phase \in {"load", "archive", "ready"}
MayWrite == page.phase = "ready"

CommitWrite ==
  /\ Open /\ MayWrite /\ page.writes # <<>>
  /\ active' = Head(page.writes)
  /\ page' = [page EXCEPT !.writes = Tail(@)]
  /\ UNCHANGED <<server, recoveries, request, lives, seen>>

-----------------------------------------------------------------------------
Edit(text) ==
  /\ Open /\ text # page.content /\ page.local < MaxRevision
  /\ Shows(Listened([page EXCEPT !.content = text, !.local = @ + 1, !.error = FALSE]))
  /\ UNCHANGED <<server, active, recoveries, request, lives>>

\* drain sends the buffer.  A save an earlier page left under way comes first.
Send ==
  /\ Open /\ Dirty(page) /\ request = NoRequest
  /\ request' = [awaited |-> TRUE, content |-> page.content, base |-> page.version,
                 revision |-> page.local, written |-> page.written]
  /\ page' = Listened([page EXCEPT !.error = FALSE])
  /\ UNCHANGED <<server, active, recoveries, lives, seen>>

\* The server saves if the version is current.  The page hears of it, or not.
Saves(heard) ==
  LET version == Len(server) + 1 IN
  /\ request # NoRequest /\ request.base = Len(server) /\ version <= MaxVersion
  /\ heard => request.awaited
  /\ server' = Append(server, request.content)
  /\ page' = IF heard
             THEN Listened([page EXCEPT !.version = version, !.written = version,
                                        !.acked = request.revision])
             ELSE IF request.awaited THEN Listened([page EXCEPT !.error = TRUE]) ELSE page
  /\ request' = NoRequest
  /\ UNCHANGED <<active, recoveries, lives, seen>>

\* A conflict, or the network fails.
SaveFails ==
  /\ request # NoRequest /\ request' = NoRequest
  /\ page' = IF request.awaited THEN Listened([page EXCEPT !.error = TRUE]) ELSE page
  /\ UNCHANGED <<server, active, recoveries, lives, seen>>

\* Somebody else saves the file, and the page may be told.
OtherSaves(text) ==
  /\ Len(server) < MaxVersion /\ server' = Append(server, text)
  /\ UNCHANGED <<active, recoveries, page, request, lives, seen>>

Receive(version) ==
  /\ Open /\ version > page.version
  /\ Shows(Listened(
       IF Dirty(page) \/ request.awaited THEN [page EXCEPT !.error = TRUE]
       ELSE [page EXCEPT !.content = server[version], !.version = version,
                         !.written = version]))
  /\ UNCHANGED <<server, active, recoveries, request, lives>>

\* resolve: the buffer is archived, then the compared text and version replace it.
Resolve(text, version) ==
  /\ page.phase = "ready" /\ page.error /\ ~request.awaited /\ version >= page.version
  /\ page.local < MaxRevision
  /\ recoveries' = recoveries \cup {[content |-> page.content, base |-> page.version]}
  /\ Shows(Listened([page EXCEPT !.content = text, !.version = version, !.written = version,
                                 !.local = @ + 1, !.error = FALSE]))
  /\ UNCHANGED <<server, active, request, lives>>

\* The user discards an archived draft.
ForgetRecovery(draft) ==
  /\ page.phase = "ready" /\ draft \in recoveries
  /\ recoveries' = recoveries \ {draft} /\ seen' = seen \cup {draft.content}
  /\ UNCHANGED <<server, active, page, request, lives>>

\* The page is reloaded, crashes or is closed; writes that were queued are gone,
\* a save under way may still reach the server.
Leave ==
  /\ Open /\ page' = Closed /\ seen' = {}
  /\ request' = IF request = NoRequest THEN request ELSE [request EXCEPT !.awaited = FALSE]
  /\ UNCHANGED <<server, active, recoveries, lives>>

-----------------------------------------------------------------------------
Init ==
  /\ server = <<FirstText>> /\ active = NoDraft /\ recoveries = {}
  /\ page = Closed /\ request = NoRequest /\ lives = 0 /\ seen = {}

Next ==
  \/ \E version \in 1..Len(server) : OpenPage(version) \/ Receive(version)
  \/ ReadDrafts \/ ArchiveDraft \/ DraftsFail \/ CommitWrite \/ Send \/ SaveFails \/ Leave
  \/ \E heard \in BOOLEAN : Saves(heard)
  \/ \E text \in Texts : Edit(text) \/ OtherSaves(text)
  \/ \E text \in Texts, version \in 1..Len(server) : Resolve(text, version)
  \/ \E draft \in recoveries : ForgetRecovery(draft)

Spec == Init /\ [][Next]_vars

-----------------------------------------------------------------------------
\* A draft of an earlier page is replaced or removed only after it is archived,
\* unless its text is the user's to drop: the buffer held it or they discarded it.
ArchivedFirst ==
  [][active' # active /\ active # NoDraft
     => active.content \in seen \/ active \in recoveries]_vars

\* Once the writes have settled, the draft is the text that is not saved.
DraftIsCurrent ==
  Open /\ MayWrite /\ page.writes = <<>> /\ Dirty(page) => active.content = page.content

\* What a page is about to save was written against the version it replaces.
WrittenAgainstBase == request.written = request.base

\* Text that was typed survives the page, and a draft that is taken up again
\* replaces nothing that its author had not seen (documentRegistry.ts:110-140).  Not
\* meant is a browser that refuses a single write once the drafts are loaded: the
\* error is kept for display (documentRegistry.ts:88), and the older draft stays
\* until the next edit.
DraftsKeepText == ArchivedFirst /\ [](DraftIsCurrent /\ WrittenAgainstBase)
=============================================================================
