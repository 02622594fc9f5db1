---------------------------- MODULE FallbackConsent ----------------------------
(***************************************************************************)
(* What a human decided about the lines of one book that fall back, and    *)
(* what becomes of it when the script changes: ReviewFallbackApprovals     *)
(* over the approval catalog, called from the review page of the web       *)
(* process and from the command line, each process with a section of its   *)
(* own, while another job of the same book may direct it anew.             *)
(*                                                                         *)
(* A reading is all a decision is about: speaker, reason, voice and text   *)
(* of a line.  A step runs up to the next await; every transaction of the  *)
(* catalog is one.  (RenderReview has the state of the job and renders.)   *)
(***************************************************************************)
EXTENDS Naturals, Sequences, FiniteSets, SequencesExt

CONSTANTS
  Lines,          \* segments of the book
  Readings,
  Cast,           \* a line with a voice of its own
  None,           \* no reading
  Clerks,         \* web requests and commands under way at a time
  Hostings,       \* where they may run, functions of the clerk to "web" and "command"
  MaxActs,        \* bound on what is asked in a behaviour
  MaxRedirections

VARIABLES
  script,       \* the book's lines as directed
  approved,     \* fallback_approvals: the reading each record is about
  excluded,     \* fallback_approval_exclusions
  grant,        \* fallback_book_grants: the reading of each subject
  clerk,        \* the calls
  hostOf,       \* the process of each
  section,      \* ApprovalCatalogAccess of each process
  acts, redirections,
  consents      \* ghost: lines and readings a human decided to use the fallback voice for

catalog == <<approved, excluded, grant>>

vars == <<script, catalog, clerk, hostOf, section, acts, redirections, consents>>

NoReadings == [l \in Lines |-> None]

NoGrant == NoReadings

Idle == [pc |-> "idle", act |-> "look", lines |-> {}, book |-> NoReadings, todo |-> << >>]

Init ==
  /\ script \in [Lines -> Readings \cup {Cast}]
  /\ approved = NoReadings /\ excluded = {} /\ grant = NoGrant
  /\ clerk = [c \in Clerks |-> Idle]
  /\ hostOf \in Hostings /\ section = [h \in {hostOf[c] : c \in Clerks} |-> << >>]
  /\ acts = 0 /\ redirections = 0
  /\ consents = {}

-----------------------------------------------------------------------------
(* What the catalog says of a script                                       *)

\* collectFallbackSubjects: the lines whose voice is the fallback
Subjects(book) == {l \in Lines : book[l] \in Readings}

\* Mutant: the line alone is compared
StillDescribesLine(reading, l, book) == reading # None /\ book[l] # Cast

\* approvalStillDescribes, grantSubjectStillDescribes
StillDescribes(reading, l, book) == reading # None /\ reading = book[l]

Live(book) == {l \in Subjects(book) : StillDescribes(approved[l], l, book)}

\* ReviewFallbackApprovals.list: what the review page and the command show
Decision(l) ==
  IF l \in Live(script) THEN "approved" ELSE IF l \in excluded THEN "excluded" ELSE "pending"

Shown(decisions) == {l \in Subjects(script) : Decision(l) \in decisions}

\* The lines a decision for the whole book is about
Offerable(book) == Subjects(book) \ (excluded \cup Live(book))

Save(l, reading) == [op |-> "save", line |-> l, reading |-> reading]

Invalidate(l) == [op |-> "invalidate", line |-> l, reading |-> None]

\* A record goes, and another is written in its place
Renew(l, reading) == [op |-> "renew", line |-> l, reading |-> reading]

\* Mutant: a line that was withdrawn is granted like any other
CoveredAnyway(book) ==
  {l \in Subjects(book) \ Live(book) : StillDescribes(grant[l], l, book)}

\* Lines that get a record from the grant
Covered(book) ==
  {l \in Subjects(book) \ (Live(book) \cup excluded) : StillDescribes(grant[l], l, book)}

\* reconcileUnlocked from one read of the catalog: records about lines that are no subjects go
\* first, then each subject in the order of the book
Reconciliation(book) ==
  LET stale == {l \in Lines : approved[l] # None /\ l \notin Live(book)}
      gone == SetToSeq(stale \ Subjects(book))
      order == SetToSeq((stale \cap Subjects(book)) \cup Covered(book))
      OfSubject(l) ==
        IF l \notin Covered(book) THEN Invalidate(l)
        ELSE IF l \in stale THEN Renew(l, book[l]) ELSE Save(l, book[l])
  IN [i \in DOMAIN gone |-> Invalidate(gone[i])] \o
     [i \in DOMAIN order |-> OfSubject(order[i])]

-----------------------------------------------------------------------------
(* The transactions                                                        *)

\* save: whoever approves a line has decided again, so an exclusion of it goes
StoreApproval(w) ==
  /\ approved' = [approved EXCEPT ![w.line] = w.reading]
  /\ excluded' = excluded \ {w.line}
  /\ UNCHANGED grant

\* revoke, by a human or because the decision no longer describes the line
StoreRevocation(w) ==
  /\ approved' = [approved EXCEPT ![w.line] = None]
  /\ excluded' = IF w.op = "withdraw" THEN excluded \cup {w.line} ELSE excluded
  /\ UNCHANGED grant

\* saveBookGrant, revokeBookGrant: a book has one grant, the latest
StoreGrant(w) ==
  /\ grant' = IF w.op = "grant" THEN w.reading ELSE NoGrant
  /\ UNCHANGED <<approved, excluded>>

-----------------------------------------------------------------------------
(* What is asked                                                           *)

Asks(c, act, lines) ==
  /\ clerk[c] = Idle /\ acts < MaxActs /\ acts' = acts + 1
  /\ clerk' = [clerk EXCEPT ![c].pc = "asked", ![c].act = act, ![c].lines = lines]
  /\ UNCHANGED <<script, catalog, section, redirections, consents, hostOf>>

\* "Approve this speaker", or --segment-id
AskOne(c) == \E l \in Shown({"pending", "excluded"}) : Asks(c, "approve", {l})

\* "Withdraw"
AskWithdrawal(c) == \E l \in Shown({"approved"}) : Asks(c, "withdraw", {l})

\* "Approve the selected lines", or --segment-ids
AskSelected(c) ==
  \E lines \in SUBSET Shown({"pending"}) : lines # {} /\ Asks(c, "select", lines)

\* "Use the fallback voice for all"; the command takes lines of one group only
AskAll(c) == Shown({"pending"}) # {} /\ Asks(c, "all", {})

\* The grant of the book is withdrawn; the legacy facade reconciles after a direction
AskBook(c) ==
  \/ grant # NoGrant /\ Asks(c, "ungrant", {})
  \/ Asks(c, "reconcile", {})

\* The command only approves
Ask(c) ==
  \/ AskOne(c) \/ AskSelected(c) \/ AskAll(c)
  \/ hostOf[c] = "web" /\ (AskWithdrawal(c) \/ AskBook(c))

-----------------------------------------------------------------------------
(* The calls                                                               *)

At(c, pc) == clerk[c].pc = pc

Host(c) == hostOf[c]

\* load, then runExclusive takes a place in the section
Load(c) ==
  /\ At(c, "asked")
  /\ clerk' = [clerk EXCEPT ![c].pc = "waiting", ![c].book = script]
  /\ section' = [section EXCEPT ![Host(c)] = Append(@, c)]
  /\ UNCHANGED <<script, catalog, acts, redirections, consents, hostOf>>

Holds(c) == section[Host(c)] # << >> /\ Head(section[Host(c)]) = c

Leaves(c) ==
  /\ clerk' = [clerk EXCEPT ![c] = Idle]
  /\ section' = [section EXCEPT ![Host(c)] = Tail(@)]

Goes(c, todo) ==
  IF todo = << >> THEN Leaves(c)
  ELSE clerk' = [clerk EXCEPT ![c].pc = "writing", ![c].todo = todo] /\ UNCHANGED section

Op(name, l) == [op |-> name, line |-> l, reading |-> None]

Reconcile == [op |-> "reconcile", line |-> None, reading |-> None]

Grant(book, lines) ==
  [op |-> "grant", line |-> None, reading |-> [l \in Lines |-> IF l \in lines THEN book[l] ELSE None]]

\* The lines a grant is for: a selection that is not on offer is refused as a whole
GrantedLines(c) ==
  LET me == clerk[c]
  IN IF me.act = "all" THEN Offerable(me.book) ELSE me.lines

\* Mutant: what of a selection is still on offer is granted
RefusedNever(c) == FALSE

Refused(c) ==
  LET me == clerk[c]
      named == me.act \in {"approve", "withdraw"} /\ ~(me.lines \subseteq Subjects(me.book))
      stale == me.act = "select" /\ ~(me.lines \subseteq Offerable(me.book))
      empty == me.act = "all" /\ Offerable(me.book) = {} /\ grant = NoGrant
  IN named \/ stale \/ empty

\* What a call has to write, from what it has loaded and the catalog as it is now
Writes(c) ==
  LET me == clerk[c]
      line == CHOOSE l \in me.lines : TRUE
  IN CASE me.act = "approve" -> <<Save(line, me.book[line])>>
       [] me.act = "withdraw" -> <<Op("withdraw", line)>>
       [] me.act = "ungrant" -> <<Op("ungrant", None)>>
       [] me.act = "reconcile" -> <<Reconcile>>
       [] me.act \in {"select", "all"} ->
            IF GrantedLines(c) = {} THEN <<Reconcile>>
            ELSE <<Grant(me.book, GrantedLines(c)), Reconcile>>

\* The lines somebody decides to use the fallback voice for
Decided(c) ==
  IF clerk[c].act \in {"select", "all"} THEN GrantedLines(c)
  ELSE {l \in clerk[c].lines : clerk[c].act = "approve"}

Enter(c) ==
  /\ At(c, "waiting") /\ Holds(c)
  /\ IF Refused(c) THEN Leaves(c) /\ UNCHANGED consents
     ELSE /\ Goes(c, Writes(c))
          /\ consents' = consents \cup {<<l, clerk[c].book[l]>> : l \in Decided(c)}
  /\ UNCHANGED <<script, catalog, acts, redirections, hostOf>>

NextWrite(c) == Head(clerk[c].todo)

\* What is left to write after one transaction
Rest(c) ==
  LET w == NextWrite(c)
  IN (IF w.op = "renew" THEN <<Save(w.line, w.reading)>> ELSE << >>) \o Tail(clerk[c].todo)

\* One transaction
Write(c) ==
  /\ At(c, "writing") /\ NextWrite(c).op # "reconcile"
  /\ CASE NextWrite(c).op = "save" -> StoreApproval(NextWrite(c))
       [] NextWrite(c).op \in {"withdraw", "invalidate", "renew"} -> StoreRevocation(NextWrite(c))
       [] NextWrite(c).op \in {"grant", "ungrant"} -> StoreGrant(NextWrite(c))
  /\ Goes(c, Rest(c))
  /\ UNCHANGED <<script, acts, redirections, consents, hostOf>>

\* reconcileUnlocked reads the catalog once
ReadCatalog(c) ==
  /\ At(c, "writing") /\ NextWrite(c).op = "reconcile"
  /\ Goes(c, Reconciliation(clerk[c].book))
  /\ UNCHANGED <<script, catalog, acts, redirections, consents, hostOf>>

\* The database stays locked until a transaction is given up
WriteLost(c) ==
  /\ At(c, "writing") /\ Leaves(c)
  /\ UNCHANGED <<script, catalog, acts, redirections, consents, hostOf>>

Call(c) == Load(c) \/ Enter(c) \/ Write(c) \/ ReadCatalog(c)

\* Another job directs the same book
Redirect ==
  /\ redirections < MaxRedirections /\ redirections' = redirections + 1
  /\ \E l \in Lines, r \in Readings \cup {Cast} :
       r # script[l] /\ script' = [script EXCEPT ![l] = r]
  /\ UNCHANGED <<catalog, clerk, section, acts, consents, hostOf>>

Next == Redirect \/ \E c \in Clerks : Ask(c) \/ Call(c) \/ WriteLost(c)

Spec == Init /\ [][Next]_vars

-----------------------------------------------------------------------------
(* Properties                                                              *)

TypeOK ==
  /\ script \in [Lines -> Readings \cup {Cast}]
  /\ approved \in [Lines -> Readings \cup {None}] /\ grant \in [Lines -> Readings \cup {None}]
  /\ excluded \subseteq Lines /\ hostOf \in Hostings
  /\ \A c \in Clerks : clerk[c].pc \in {"idle", "asked", "waiting", "writing"}
  /\ acts \in 0..MaxActs /\ redirections \in 0..MaxRedirections

\* Every record in the catalog is about a reading of the line that somebody decided on: neither a
\* grant nor a record is ever carried over to a line that was directed anew.
NothingCarriedOver ==
  \A l \in Lines : approved[l] # None => <<l, approved[l]>> \in consents

\* No line is authorized and withdrawn at once.
Unambiguous == \A l \in excluded : approved[l] = None

OneProcess == Cardinality(DOMAIN section) = 1

\* A withdrawal stands until somebody approves that very line, whatever is decided for the book.
WithdrawalStands ==
  [][\A l \in excluded \ excluded' :
       \E c \in Clerks : clerk'[c] # clerk[c] /\ clerk[c].act = "approve"]_vars

\* The same where one process decides; its section keeps a withdrawal out of a grant under way.
WithdrawalStandsInOneProcess ==
  [][OneProcess =>
       \A l \in excluded \ excluded' :
         \E c \in Clerks : clerk'[c] # clerk[c] /\ clerk[c].act = "approve"]_vars

EndsWell(c) ==
  \/ Write(c) /\ Rest(c) = << >>
  \/ ReadCatalog(c) /\ clerk'[c] = Idle

\* A selection that was not refused is approved whole, and a reconciliation leaves nothing for
\* another one to do.
DecidedWhole ==
  [][OneProcess => \A c \in Clerks :
       EndsWell(c) =>
         /\ clerk[c].act = "select" =>
              \A l \in clerk[c].lines : approved'[l] = clerk[c].book[l]
         /\ clerk[c].act \in {"select", "all", "reconcile"} =>
              \A book \in {clerk[c].book} : Reconciliation(book)' = << >>]_vars
=============================================================================
