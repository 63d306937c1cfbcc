------------------------------ MODULE Services ------------------------------
(* Six components that share nothing, side by side: a behaviour is of the     *)
(* subject it begins with, the others rest.                                   *)
EXTENDS Integers, Sequences, FiniteSets

CONSTANTS
  None, Callers,
  Entries, MaxJobs, MaxRevision, MaxSettings, MaxCrashes,         \* a reference paper
  MemoryTexts, Instructions, MaxMemories, MaxFileVersion,         \* a paper's memory
  Befores, Afters,                                                \* a proposed change
  DraftTexts, FirstText, MaxDraftRevision, MaxDraftVersion, MaxLives,   \* drafts of a page
  Sessions, Texts, MaxEdits, MaxVersion, MaxLost,                 \* windows on a file
  Deliveries, Dispatchers, Inline, Budget, MaxTroubles            \* mail

ASSUME PapersAssumption == MaxRevision \in Nat \ {0} /\ MaxJobs \in Nat
\* The texts of a change are sequences of lines.
ASSUME TextsAssumption == \A t \in Befores \cup Afters : t \in Seq({t[i] : i \in DOMAIN t})
ASSUME WindowsAssumption == Texts # {}
\* Some mail is queued, for finitely many dispatchers, with a budget to send it.
ASSUME MailAssumption ==
  Deliveries # {} /\ IsFiniteSet(Dispatchers) /\ Budget \in Nat \ {0}

VARIABLES
  subject,
  paper, files, settings, job, calls, crashes,
  memories, file, asks, by,
  before, after, hunks,
  saved, active, recoveries, page, request, lives, seen,
  server, view, requests, replies, compared, reached, flushed, lost,
  mail, work, accepted, troubles

Papers  == INSTANCE ReferencePapers WITH call <- calls
Memory  == INSTANCE PaperMemory WITH call <- asks, Texts <- MemoryTexts
Hunks   == INSTANCE TextHunks
Drafts  == INSTANCE OfflineDrafts WITH
  Texts <- DraftTexts, server <- saved, MaxRevision <- MaxDraftRevision,
  MaxVersion <- MaxDraftVersion
Windows == INSTANCE DocumentSession WITH MaxRevision <- MaxEdits
Mail    == INSTANCE MailDelivery

papers == <<paper, files, settings, job, calls, crashes>>
paperMemory == <<memories, file, asks, by>>
review == <<before, after, hunks>>
drafts == <<saved, active, recoveries, page, request, lives, seen>>
windows == <<server, view, requests, replies, compared, reached, flushed, lost>>
mails == <<mail, work, accepted, troubles>>
vars == <<subject, papers, paperMemory, review, drafts, windows, mails>>

Init ==
  /\ subject \in {"papers", "memory", "hunks", "drafts", "windows", "mail"}
  /\ Papers!Init /\ Memory!Init /\ Drafts!Init /\ Windows!Init /\ Mail!Init
  /\ IF subject = "hunks" THEN Hunks!Init ELSE before = <<>> /\ after = <<>> /\ hunks = <<>>

Next ==
  /\ \/ subject = "papers" /\ Papers!Next
        /\ UNCHANGED <<paperMemory, review, drafts, windows, mails>>
     \/ subject = "memory" /\ Memory!Next
        /\ UNCHANGED <<papers, review, drafts, windows, mails>>
     \/ subject = "hunks" /\ Hunks!Next
        /\ UNCHANGED <<papers, paperMemory, drafts, windows, mails>>
     \/ subject = "drafts" /\ Drafts!Next
        /\ UNCHANGED <<papers, paperMemory, review, windows, mails>>
     \/ subject = "windows" /\ Windows!Next
        /\ UNCHANGED <<papers, paperMemory, review, drafts, mails>>
     \/ subject = "mail" /\ Mail!Next
        /\ UNCHANGED <<papers, paperMemory, review, drafts, windows>>
  /\ UNCHANGED subject

Spec == Init /\ [][Next]_vars

\* A ready paper and the selections from it agree with its chosen entry.
PapersAgree == Papers!PapersAgree
\* Extractions and mirroring never undo what users vouched for or instructed.
UsersWordsStay == Memory!UsersWordsStay
\* Deciding about hunks yields the text with exactly the accepted ones replaced.
HunksRebuildTexts == Hunks!HunksRebuildTexts
\* Typed text survives the page; a recovered draft overwrites nothing unseen.
DraftsKeepText == Drafts!DraftsKeepText
\* A window never claims more than the server has, and overwrites nothing unseen.
Truthful == Windows!Truthful
\* Every copy of a mail after the first is explained by a fault.
DeliveredOnce == Mail!DeliveredOnce
=============================================================================
