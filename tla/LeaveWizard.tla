---------------------------- MODULE LeaveWizard ----------------------------
(***************************************************************************)
(* The page an administrator loads leave reports with (LeaveImport.jsx), in *)
(* front of the import service as it appears from there: an upload becomes  *)
(* a preview, a preview is committed or discarded, the last commit can be   *)
(* reverted, and other administrators do the same meanwhile.  Requests are  *)
(* served and answered in any order.  LeaveImport models the service itself.*)
(***************************************************************************)
EXTENDS Naturals, FiniteSets

CONSTANTS
  Files,
  SheetsOf, Blocked,   \* of a file: its sheets, and those with errors
  Needs,               \* of a file: the ticks its issues call for
  Guarded,             \* of a file: selections that call for "large" by themselves
  ResumeLimit,         \* the newest imports a page looks for a preview among
  HistoryLimit,        \* the newest imports the history shows
  MaxImports,          \* bound: imports uploaded
  MaxFlight,           \* bound: requests under way
  MaxActs,             \* bound: requests the user makes, and steps of the others
  NoFile

Ticks == {"large", "dept"}
Ids == 1 .. MaxImports
Keys == 1 .. (MaxImports + MaxFlight + 1)
Sheets == UNION {SheetsOf[f] : f \in Files}

ASSUME FilesAssumption ==
  /\ NoFile \notin Files
  /\ \A f \in Files : /\ Blocked[f] \subseteq SheetsOf[f] /\ Needs[f] \subseteq Ticks
                      /\ Guarded[f] \subseteq SUBSET SheetsOf[f]
ASSUME LimitsAssumption == ResumeLimit \in Nat /\ HistoryLimit \in Nat
ASSUME BoundsAssumption == MaxImports \in Nat /\ MaxFlight \in Nat /\ MaxActs \in Nat

VARIABLES
  imports,   \* the service: leave_import; history: what the commit asked for
  page,      \* the state of LeaveImport, Preview and History
  flight,    \* requests sent, and answers not yet read
  acts

vars == <<imports, page, flight, acts>>

NoImport == [file |-> NoFile, status |-> "none", base |-> 0, key |-> 0,
             took |-> {}, asked |-> {}, ticks |-> {}]

\* shown: preview.import_id, 0 for none; status, full: what is known of it;
\* codes: issueCodes has come; picked, ticked, confirming, committing, key: the
\* state of Preview; listing, offered, reverting: the history list is on its way,
\* the import it offers to revert, the one being confirmed; thanked: the import
\* the notice says is committed.  History: open, the previews there were when
\* the page opened, {} once the user acts or an answer to it is lost.
Opened(was) ==
  [shown |-> 0, status |-> "none", full |-> FALSE, codes |-> FALSE, picked |-> {}, ticked |-> {},
   confirming |-> FALSE, committing |-> FALSE, key |-> 0, listing |-> TRUE, offered |-> 0,
   reverting |-> 0, thanked |-> 0, open |-> was]

Request(op, id) == [op |-> op, id |-> id, file |-> NoFile, sheets |-> {}, ticks |-> {}, key |-> 0,
                    heard |-> TRUE, result |-> "sent", got |-> 0, status |-> "none"]

With(status) == {i \in Ids : imports[i].status \in status}
Newest(S) == IF S = {} THEN 0 ELSE CHOOSE i \in S : \A j \in S : j <= i
\* list_imports: the newest imports, whatever became of them.
Newer(i) == {j \in Ids : imports[j].status # "none" /\ i < j}
Listed(limit) == {i \in Ids : imports[i].status # "none" /\ Cardinality(Newer(i)) < limit}
Usable(f) == SheetsOf[f] \ Blocked[f]
FileOf(i) == imports[i].file

\* selected_sheets: no selection stands for every sheet without errors.
WrongTaken(f, sheets) == IF sheets = {} THEN SheetsOf[f] ELSE sheets
Taken(f, sheets) == IF sheets = {} THEN Usable(f) ELSE sheets

Stored(imp, key, sheets, ticks) ==
  [imp EXCEPT !.status = "committed", !.key = key, !.took = Taken(imp.file, sheets),
              !.asked = sheets, !.ticks = ticks]

\* uid: a key no import and no request has.
WrongUid == 1
Uid == CHOOSE k \in Keys : /\ \A i \in Ids : imports[i].key # k
                           /\ \A r \in flight : r.key # k
                           /\ \A j \in Keys : j < k => \/ \E i \in Ids : imports[i].key = j
                                                       \/ \E r \in flight : r.key = j

\* The service has no import, an open preview, or one that a page has committed
\* with a key of its own; after it, perhaps, a preview of another file that was
\* discarded.
Init ==
  \E first \in {"none", "preview_ready", "committed"}, f \in Files, later \in Files \cup {NoFile} :
    /\ later # NoFile => first # "none" /\ later # f
    /\ LET imp == [NoImport EXCEPT !.file = f, !.status = "preview_ready"]
       IN imports = [i \in Ids |->
            IF i = 1 /\ first = "committed" THEN Stored(imp, 1, Usable(f), Ticks)
            ELSE IF i = 1 /\ first = "preview_ready" THEN imp
            ELSE IF i = 2 /\ later # NoFile THEN [NoImport EXCEPT !.file = later, !.status = "discarded"]
            ELSE NoImport]
    /\ page = Opened(With({"preview_ready"}))
    /\ flight = {Request("resume list", 0)}
    /\ acts = 0

----------------------------------------------------------------------------
(* The service *)

Set(i, imp) == imports' = [imports EXCEPT ![i] = imp]

Answered(r, result, got, status) ==
  flight' = (flight \ {r}) \cup
            (IF r.heard THEN {[r EXCEPT !.result = result, !.got = got, !.status = status]} ELSE {})

Refuse(r) == Answered(r, "error", 0, "none") /\ UNCHANGED imports

\* A file that is live already is not read again: only its id and status come back.
ServeUpload(r) ==
  /\ r.op = "upload"
  /\ LET live == {i \in With({"preview_ready", "committed"}) : FileOf(i) = r.file}
         new == Cardinality(Ids \ With({"none"})) + 1
     IN \/ live # {} /\ \E i \in live : Answered(r, "known", i, imports[i].status) /\ UNCHANGED imports
        \/ /\ live = {} /\ new \in Ids
           /\ Set(new, [NoImport EXCEPT !.file = r.file, !.status = "preview_ready",
                                        !.base = Newest(With({"committed"}))])
           /\ Answered(r, "ok", new, "preview_ready")
        \/ live = {} /\ Refuse(r)

\* The ticks a commit needs: its issues', and the guard's on its own sheets.
Called(f, sheets) == Needs[f] \cup (IF Taken(f, sheets) \in Guarded[f] THEN {"large"} ELSE {})

ServeCommit(r) ==
  /\ r.op = "commit"
  /\ LET imp == imports[r.id]
         replayed == {j \in With({"committed"}) : /\ imports[j].key = r.key
                                                  /\ imp.status = "committed" => j = r.id}
     IN \/ \E j \in replayed : Answered(r, "ok", j, "committed") /\ UNCHANGED imports
        \/ /\ replayed = {}
           /\ \/ /\ imp.status = "preview_ready" /\ imp.base = Newest(With({"committed"}))
                 /\ r.sheets \subseteq Usable(imp.file)
                 /\ Called(imp.file, r.sheets) \subseteq r.ticks
                 /\ Set(r.id, Stored(imp, r.key, r.sheets, r.ticks))
                 /\ Answered(r, "ok", r.id, "committed")
              \/ Refuse(r)

ServeDiscard(r) ==
  /\ r.op = "discard"
  /\ IF imports[r.id].status = "preview_ready"
     THEN Set(r.id, [imports[r.id] EXCEPT !.status = "discarded"]) /\ Answered(r, "ok", r.id, "discarded")
     ELSE Refuse(r)

ServeRevert(r) ==
  /\ r.op = "revert"
  /\ IF r.id = Newest(With({"committed"}))
     THEN Set(r.id, [imports[r.id] EXCEPT !.status = "reverted"]) /\ Answered(r, "ok", r.id, "reverted")
     ELSE Refuse(r)

\* get_import; the list, in which the page looks for the newest open preview.
WrongResumable == {"committed"}
Resumable == {"preview_ready"}
ServeRead(r) ==
  /\ \/ r.op \in {"view", "resume"} /\ Answered(r, "ok", r.id, imports[r.id].status)
     \/ r.op = "resume list" /\ Answered(r, "ok", Newest(With(Resumable) \cap Listed(ResumeLimit)), "none")
  /\ UNCHANGED imports

Serve(r) ==
  /\ r.result = "sent"
  /\ ServeUpload(r) \/ ServeCommit(r) \/ ServeDiscard(r) \/ ServeRevert(r) \/ ServeRead(r)
  /\ UNCHANGED <<page, acts>>

\* The network fails, before the service is reached or after.
Lose(r) ==
  /\ r.result \in {"sent", "ok", "known"}
  /\ Refuse(r)
  /\ UNCHANGED <<page, acts>>

\* Another administrator uploads, commits, discards or reverts.
Other ==
  /\ acts < MaxActs /\ acts' = acts + 1
  /\ \/ \E f \in Files :
          LET new == Cardinality(Ids \ With({"none"})) + 1
          IN /\ new \in Ids /\ \A i \in With({"preview_ready", "committed"}) : FileOf(i) # f
             /\ Set(new, [NoImport EXCEPT !.file = f, !.status = "preview_ready",
                                          !.base = Newest(With({"committed"}))])
     \/ \E i \in With({"preview_ready"}) :
          /\ imports[i].base = Newest(With({"committed"}))
          /\ Set(i, Stored(imports[i], 0, Usable(FileOf(i)), Ticks))
     \/ \E i \in With({"preview_ready"}) : Set(i, [imports[i] EXCEPT !.status = "discarded"])
     \/ \E i \in With({"committed"}) \cap {Newest(With({"committed"}))} :
          Set(i, [imports[i] EXCEPT !.status = "reverted"])
  /\ UNCHANGED <<page, flight>>

----------------------------------------------------------------------------
(* What the page makes of an answer *)

\* setPreview: Preview is keyed by the import, so another import starts it
\* afresh, with every sheet without errors selected, and the same one keeps
\* its selection.  full: the answer names the sheets.
WrongShow(pg, id, status, full) ==
  [pg EXCEPT !.shown = id, !.status = status, !.full = full,
             !.picked = IF pg.shown = 0 /\ full THEN Usable(FileOf(id)) ELSE @,
             !.key = IF pg.shown = 0 THEN Uid ELSE @]
Show(pg, id, status, full) ==
  IF pg.shown = id THEN [pg EXCEPT !.status = status, !.full = full]
  ELSE [pg EXCEPT !.shown = id, !.status = status, !.full = full, !.codes = FALSE,
                  !.picked = IF full THEN Usable(FileOf(id)) ELSE {}, !.ticked = {},
                  !.confirming = FALSE, !.committing = FALSE, !.key = Uid]

\* finally: only the Preview that sent the request is still there to hear it.
Ended(pg, r) ==
  IF pg.key = r.key THEN [pg EXCEPT !.committing = FALSE, !.confirming = FALSE] ELSE pg

Read(r, pg) == page' = pg /\ flight' = flight \ {r}
ReadAndSend(r, pg, next) == page' = pg /\ flight' = (flight \ {r}) \cup {next}

Deliver(r) ==
  /\ r.result # "sent"
  /\ \/ r.op = "upload" /\ r.result \in {"ok", "known"} /\
          Read(r, [Show(page, r.got, r.status, r.result = "ok") EXCEPT !.listing = TRUE])
     \/ r.op = "view" /\ r.result = "ok" /\
          Read(r, [Show(page, r.got, r.status, TRUE) EXCEPT !.listing = TRUE])
     \/ r.op = "resume" /\ r.result = "ok" /\ Read(r, Show(page, r.got, r.status, TRUE))
     \/ r.op = "resume list" /\ r.result = "ok" /\
          IF r.got = 0 THEN Read(r, page) ELSE ReadAndSend(r, page, Request("resume", r.got))
     \/ r.op = "commit" /\ r.result = "ok" /\
          ReadAndSend(r, [Ended(page, r) EXCEPT !.thanked = r.id, !.listing = TRUE], Request("resume", r.got))
     \/ r.op = "commit" /\ r.result # "ok" /\ Read(r, Ended(page, r))
     \/ r.op = "discard" /\ r.result = "ok" /\
          Read(r, [page EXCEPT !.shown = 0, !.status = "none", !.full = FALSE, !.codes = FALSE,
                               !.picked = {}, !.ticked = {}, !.confirming = FALSE,
                               !.committing = FALSE, !.key = 0, !.thanked = 0, !.listing = TRUE])
     \/ r.op = "revert" /\ r.result = "ok" /\
          ReadAndSend(r, [page EXCEPT !.reverting = 0, !.thanked = 0, !.listing = TRUE],
                      Request("view", r.id))
     \/ r.op \in {"upload", "view", "discard", "revert"} /\ r.result = "error" /\ Read(r, page)
     \/ r.op \in {"resume", "resume list"} /\ r.result = "error" /\ Read(r, [page EXCEPT !.open = {}])
  /\ UNCHANGED <<imports, acts>>

\* The issues of the preview, which bring the ticks; the history list.
CodesCome ==
  /\ page.shown # 0 /\ ~page.codes
  /\ page' = [page EXCEPT !.codes = TRUE]
  /\ UNCHANGED <<imports, flight, acts>>

ListCome ==
  /\ page.listing
  /\ page' = [page EXCEPT !.listing = FALSE, !.offered = Newest(With({"committed"}) \cap Listed(HistoryLimit))]
  /\ UNCHANGED <<imports, flight, acts>>

----------------------------------------------------------------------------
(* The user *)

Toggle(pg) ==
  /\ page' = [pg EXCEPT !.open = {}]
  /\ UNCHANGED <<imports, flight, acts>>

Send(pg, r) ==
  /\ acts < MaxActs /\ acts' = acts + 1
  /\ Cardinality(flight) < MaxFlight /\ flight' = flight \cup {r}
  /\ page' = [pg EXCEPT !.open = {}]
  /\ UNCHANGED imports

\* A file is dropped, also while another is being uploaded.
Upload(f) == Send(page, [Request("upload", 0) EXCEPT !.file = f])

View(i) == i \notin With({"none"}) /\ Send([page EXCEPT !.thanked = 0], Request("view", i))

\* The sheets stay open to change while the commit is being confirmed.
PickSheet(s) ==
  /\ page.full /\ s \in Usable(FileOf(page.shown))
  /\ Toggle([page EXCEPT !.picked = IF s \in @ THEN @ \ {s} ELSE @ \cup {s}])

\* A box is there for an issue of the file.
Tick(k) ==
  /\ page.codes /\ k \in Needs[FileOf(page.shown)]
  /\ Toggle([page EXCEPT !.ticked = IF k \in @ THEN @ \ {k} ELSE @ \cup {k}])

CanCommit ==
  /\ page.shown # 0 /\ page.status = "preview_ready" /\ page.picked # {}
  /\ page.codes => Needs[FileOf(page.shown)] \subseteq page.ticked

AskCommit ==
  /\ CanCommit /\ ~page.confirming /\ ~page.committing
  /\ Toggle([page EXCEPT !.confirming = TRUE])

BackOut ==
  /\ page.confirming /\ ~page.committing
  /\ Toggle([page EXCEPT !.confirming = FALSE])

Confirm ==
  /\ page.confirming /\ ~page.committing
  /\ Send([page EXCEPT !.committing = TRUE],
          [Request("commit", page.shown) EXCEPT
             !.sheets = page.picked, !.ticks = page.ticked, !.key = page.key])

Discard ==
  /\ page.status = "preview_ready" /\ ~page.confirming
  /\ Send(page, Request("discard", page.shown))

AskRevert ==
  /\ page.offered # 0
  /\ Toggle([page EXCEPT !.reverting = IF @ = page.offered THEN 0 ELSE page.offered])

Revert ==
  /\ page.offered # 0 /\ page.reverting = page.offered
  /\ \A r \in flight : r.op # "revert"
  /\ Send(page, Request("revert", page.reverting))

\* The page is opened again: by the user, or because App loads its records anew.
\* Requests go on, but nobody reads their answers.
Reopen ==
  /\ acts < MaxActs /\ acts' = acts + 1
  /\ page' = Opened(With({"preview_ready"}))
  /\ flight' = {[r EXCEPT !.heard = FALSE] : r \in {q \in flight : q.result = "sent"
                                                    /\ q.op \in {"upload", "commit", "discard", "revert"}}}
               \cup {Request("resume list", 0)}
  /\ UNCHANGED imports

User ==
  \/ \E f \in Files : Upload(f)
  \/ \E i \in Ids : View(i)
  \/ \E s \in Sheets : PickSheet(s)
  \/ \E k \in Ticks : Tick(k)
  \/ AskCommit \/ BackOut \/ Confirm \/ Discard \/ AskRevert \/ Revert \/ Reopen

Next ==
  \/ \E r \in flight : Serve(r) \/ Lose(r) \/ Deliver(r)
  \/ CodesCome \/ ListCome \/ User \/ Other

Spec == Init /\ [][Next]_vars

----------------------------------------------------------------------------
(* Properties *)

TypeOK ==
  /\ \A i \in Ids : /\ imports[i].file \in Files \cup {NoFile} /\ imports[i].base \in 0..MaxImports
                    /\ imports[i].status \in {"none", "preview_ready", "committed", "discarded", "reverted"}
                    /\ imports[i].key \in Keys \cup {0} /\ imports[i].took \subseteq Sheets
  /\ page.shown \in Ids \cup {0} /\ page.picked \subseteq Sheets /\ page.ticked \subseteq Ticks
  /\ Cardinality(flight) <= MaxFlight + 1

\* However the selection is changed while the commit is confirmed, and whoever
\* commits, no sheet with errors gets in and nothing without the ticks its file
\* calls for (the refusals of the commit handler).
CommitsSound ==
  \A i \in With({"committed", "reverted"}) :
    /\ imports[i].took \cap Blocked[FileOf(i)] = {}
    /\ Needs[FileOf(i)] \subseteq imports[i].ticks

\* Whatever answers come late, a commit names sheets of the import it is for,
\* never those selected for another one shown before.
RequestsFit ==
  \A r \in flight : r.op = "commit" => r.sheets \subseteq Usable(FileOf(r.id))

\* A page says "Committed" only of an import that was, also when the answer is
\* the replay of an earlier one by its idempotency key.
ThanksTrue == page.thanked # 0 => page.thanked \in With({"committed", "reverted"})

\* A page that is opened again does not stay empty while a preview that was open
\* then still is (comment at LeaveImport.jsx:569), unless as many imports as the
\* page asks for have been uploaded after it.
ResumesOpenPreview ==
  (\A r \in flight : ~r.heard) /\ page.shown = 0
    => page.open \cap With({"preview_ready"}) \cap Listed(ResumeLimit) = {}

\* What a commit stores is the selection it was confirmed with
\* (LeaveImport.jsx:328: 'Select at least one sheet.').
CommitsWhatWasPicked ==
  \A i \in With({"committed", "reverted"}) : imports[i].took = imports[i].asked
=============================================================================
