------------------------ MODULE AgreedVoicesProofs ------------------------
(***************************************************************************)
(* No decision is carried over to another line or another reading, for any *)
(* number of lines, readings, calls and processes; in one process no       *)
(* decision for the book undoes a withdrawal; and any number of commands,  *)
(* web processes and jobs speak a book with the cast that was signed for   *)
(* it, whatever windows are asked for.                                     *)
(***************************************************************************)
EXTENDS AgreedVoices, Naturals, Sequences, FiniteSetTheorems, TLAPS

(* A book has finitely many segments, a reading is neither the mark of a   *)
(* line with a voice of its own nor that of no reading, and every call is  *)
(* made in the web process or in a command.                                *)
ConsentAssumption ==
  /\ IsFiniteSet(Lines)
  /\ Voiced \notin Readings /\ NoReading \notin Readings /\ Voiced # NoReading
  /\ Hostings \subseteq [Clerks -> {"web", "command"}]
  /\ MaxActs \in Nat /\ MaxRedirections \in Nat

-----------------------------------------------------------------------------
(* The invariant                                                           *)

Acts == {"look", "approve", "withdraw", "select", "all", "ungrant", "reconcile"}

Ops == {"save", "invalidate", "renew", "withdraw", "grant", "ungrant", "reconcile"}

Grants == [Lines -> Readings \cup {NoReading}]

Scripts == [Lines -> Readings \cup {Voiced}]

WriteRecords ==
  [op : Ops, line : Lines \cup {NoReading}, reading : Readings \cup {NoReading} \cup Grants]

\* A reading that is read or written for a line was decided on
Said(readings, said) == \A l \in Lines : readings[l] # NoReading => <<l, readings[l]>> \in said

\* A write puts nothing into the catalog that nobody has decided
Sound(w, said) ==
  /\ w \in WriteRecords
  /\ w.op \in {"save", "renew"} =>
       w.line \in Lines /\ w.reading \in Readings /\ <<w.line, w.reading>> \in said
  /\ w.op \in {"withdraw", "invalidate"} => w.line \in Lines
  /\ w.op = "grant" => w.reading \in Grants /\ Said(w.reading, said)

\* Whoever withdraws does nothing else; and where one process decides, no record is about to be
\* written for a line that was withdrawn but by naming it
Respects(act, w, out) ==
  /\ w.op = "withdraw" <=> act = "withdraw"
  /\ Consent!OneProcess /\ act # "approve" /\ w.op \in {"save", "renew"} => w.line \notin out

CatalogOK ==
  /\ cApproved \in Grants /\ cGrant \in Grants /\ cExcluded \subseteq Lines
  /\ Said(cApproved, cConsents) /\ Said(cGrant, cConsents)
  /\ Consent!Unambiguous

HostsOK ==
  /\ cHostOf \in Hostings /\ cHostOf \in [Clerks -> {"web", "command"}]
  /\ cSection \in [{cHostOf[c] : c \in Clerks} -> Seq(Clerks)]

ClerkRecords ==
  [pc : {"idle", "asked", "waiting", "writing"}, act : Acts, lines : SUBSET Lines,
   book : [Lines -> Readings \cup {Voiced, NoReading}], todo : Seq(WriteRecords)]

\* What a call was asked, what it has loaded, and what it is going to write
ClerkOK(c) ==
  /\ cClerk[c].pc # "idle" => cClerk[c].act # "look"
  /\ cClerk[c].pc # "idle" /\ cClerk[c].act \in {"approve", "withdraw"} =>
       \E l \in Lines : cClerk[c].lines = {l}
  /\ cClerk[c].pc \in {"waiting", "writing"} => cClerk[c].book \in Scripts
  /\ cClerk[c].pc = "writing" =>
       /\ Consent!Holds(c) /\ cClerk[c].todo # << >>
       /\ \A i \in 1..Len(cClerk[c].todo) :
            /\ Sound(cClerk[c].todo[i], cConsents)
            /\ Respects(cClerk[c].act, cClerk[c].todo[i], cExcluded)

ClerksOK == cClerk \in [Clerks -> ClerkRecords] /\ \A c \in Clerks : ClerkOK(c)

BoundsOK == cScript \in Scripts /\ cActs \in 0..MaxActs /\ cRedirections \in 0..MaxRedirections

ConsentInv == BoundsOK /\ CatalogOK /\ HostsOK /\ ClerksOK

\* Records that describe their line no more, and lines the grant of the book is for
Stale(book) == {l \in Lines : cApproved[l] # NoReading /\ l \notin Consent!Live(book)}

Grantable(book) == {l \in Consent!Subjects(book) \ cExcluded : Consent!StillDescribes(cGrant[l], l,
   book)}

\* One task for every line that has none of the records it should have or one it should not
Tasks(todo, book) ==
  /\ \A i, j \in 1..Len(todo) : i # j => todo[i].line # todo[j].line
  /\ \A i \in 1..Len(todo) :
       \/ todo[i].op = "invalidate" /\ todo[i].line \in Lines \ Grantable(book)
       \/ /\ todo[i].op \in {"save", "renew"} /\ todo[i].line \in Consent!Subjects(book)
          /\ todo[i].reading = book[todo[i].line]
  /\ \A l \in Stale(book) \cup Consent!Covered(book) : \E i \in 1..Len(todo) : todo[i].line = l

Chosen(c) == {l \in cClerk[c].lines : cClerk[c].act = "select"}

\* What a decision for the book has still to do: grant, read the catalog, or write the records
Planned(c) ==
  \/ \E given \in SUBSET (Consent!Subjects(cClerk[c].book) \ cExcluded) :
       cClerk[c].todo = <<Consent!Grant(cClerk[c].book, given),
          Consent!Reconcile>> /\ Chosen(c) \subseteq given
  \/ cClerk[c].todo = <<Consent!Reconcile>> /\ Chosen(c) \subseteq Grantable(cClerk[c].book)
  \/ Tasks(cClerk[c].todo, cClerk[c].book) /\ Chosen(c) \subseteq Grantable(cClerk[c].book)

ForTheBook(c) == cClerk[c].pc = "writing" /\ cClerk[c].act \in {"select", "all", "reconcile"}

PlansOK == Consent!OneProcess => \A c \in Clerks : ForTheBook(c) => Planned(c)

-----------------------------------------------------------------------------
(* Sequences of writes                                                     *)

(* The order SetToSeq chooses has every element of the set once.           *)
LEMMA InSomeOrder ==
  ASSUME NEW S, IsFiniteSet(S)
  PROVE  /\ Consent!SetToSeq(S) \in Seq(S)
         /\ \A i, j \in 1..Len(Consent!SetToSeq(S)) : i # j => Consent!SetToSeq(S)[i] # Consent!SetToSeq(S)[j]
         /\ \A x \in S : \E i \in 1..Len(Consent!SetToSeq(S)) : Consent!SetToSeq(S)[i] = x
<1>1. PICK f \in [1..Cardinality(S) -> S] : Consent!IsInjective(f)
  <2>1. ExistsBijection(1..Cardinality(S), S)
    BY FS_CardinalityType
  <2>2. PICK f \in Bijection(1..Cardinality(S), S) : TRUE
    BY <2>1 DEF ExistsBijection
  <2>3. f \in [1..Cardinality(S) -> S] /\ Consent!IsInjective(f)
    BY <2>2 DEF Bijection, Injection, IsInjective, Consent!IsInjective
  <2> QED BY <2>3
<1>2. Consent!SetToSeq(S) \in [1..Cardinality(S) -> S] /\ Consent!IsInjective(Consent!SetToSeq(S))
  BY <1>1 DEF Consent!SetToSeq, Cardinality, Consent!Cardinality
<1>3. Cardinality(S) \in Nat
  BY FS_CardinalityType
<1> DEFINE s == Consent!SetToSeq(S)
<1>4. s \in Surjection(1..Cardinality(S), S)
  <2>1. s \in Injection(1..Cardinality(S), S)
    BY <1>2 DEF Injection, IsInjective, Consent!IsInjective
  <2>2. Cardinality(1..Cardinality(S)) = Cardinality(S)
    BY <1>3, FS_Interval
  <2> HIDE DEF s
  <2> QED BY <2>1, <2>2, FS_Injection
<1> HIDE DEF s
<1>5. s \in Seq(S) /\ Len(s) = Cardinality(S) /\ DOMAIN s = 1..Cardinality(S)
  BY <1>2, <1>3 DEF s
<1>6. \A i, j \in 1..Len(s) : i # j => s[i] # s[j]
  BY <1>2, <1>5 DEF s, Consent!IsInjective
<1>7. \A x \in S : \E i \in 1..Len(s) : s[i] = x
  BY <1>4, <1>5 DEF Surjection
<1> QED BY <1>5, <1>6, <1>7 DEF s

(* What two sequences have in common, their concatenation has.             *)
LEMMA EitherPart ==
  ASSUME NEW S, NEW s \in Seq(S), NEW t \in Seq(S), NEW i \in 1..Len(s \o t)
  PROVE  \/ \E j \in 1..Len(s) : (s \o t)[i] = s[j]
         \/ \E j \in 1..Len(t) : (s \o t)[i] = t[j]
<1>1. CASE i <= Len(s)
  BY <1>1
<1>2. CASE i > Len(s)
  <2>1. i - Len(s) \in 1..Len(t) /\ (s \o t)[i] = t[i - Len(s)]
    BY <1>2
  <2> QED BY <2>1
<1> QED BY <1>1, <1>2

(* Where the elements of a concatenation come from.                        *)
LEMMA Joined ==
  ASSUME NEW S, NEW s \in Seq(S), NEW t \in Seq(S)
  PROVE  /\ Len(s \o t) = Len(s) + Len(t)
         /\ \A i \in 1..Len(s) : (s \o t)[i] = s[i]
         /\ \A i \in Len(s) + 1 .. Len(s) + Len(t) : (s \o t)[i] = t[i - Len(s)]
OBVIOUS

(* A reconciliation revokes what does not describe its line any more, and  *)
(* writes records only for lines the grant covers, with the reading it was *)
(* given for.                                                              *)
LEMMA ReconciliationWrites ==
  ASSUME ConsentAssumption, CatalogOK, NEW book \in Scripts
  PROVE  /\ Consent!Reconciliation(book) \in Seq(WriteRecords)
         /\ \A i \in 1..Len(Consent!Reconciliation(book)) :
              \/ /\ Consent!Reconciliation(book)[i].op = "invalidate"
                 /\ Consent!Reconciliation(book)[i].line \in Lines
              \/ /\ Consent!Reconciliation(book)[i].op \in {"save", "renew"}
                 /\ Consent!Reconciliation(book)[i].line \in Consent!Covered(book)
                 /\ Consent!Reconciliation(book)[i].reading = book[Consent!Reconciliation(book)[i].line]
<1> DEFINE stale == {l \in Lines : cApproved[l] # NoReading /\ l \notin Consent!Live(book)}
           ofNone == stale \ Consent!Subjects(book)
           ofSome == (stale \cap Consent!Subjects(book)) \cup Consent!Covered(book)
           gone == Consent!SetToSeq(ofNone)
           order == Consent!SetToSeq(ofSome)
           OfSubject(l) ==
             IF l \notin Consent!Covered(book) THEN Consent!Invalidate(l)
             ELSE IF l \in stale THEN Consent!Renew(l, book[l]) ELSE Consent!Save(l, book[l])
           first == [i \in DOMAIN gone |-> Consent!Invalidate(gone[i])]
           second == [i \in DOMAIN order |-> OfSubject(order[i])]
           Good(w) ==
             /\ w \in WriteRecords
             /\ \/ w.op = "invalidate" /\ w.line \in Lines
                \/ /\ w.op \in {"save", "renew"} /\ w.line \in Consent!Covered(book)
                   /\ w.reading = book[w.line]
<1>1. Consent!Reconciliation(book) = first \o second
  BY DEF Consent!Reconciliation
<1>2. Consent!Covered(book) \subseteq Consent!Subjects(book) /\ Consent!Subjects(book) \subseteq Lines
  BY DEF Consent!Covered, Consent!Subjects
<1>3. gone \in Seq(ofNone) /\ order \in Seq(ofSome)
  <2>1. ofNone \subseteq Lines /\ ofSome \subseteq Lines
    BY <1>2
  <2>2. IsFiniteSet(ofNone) /\ IsFiniteSet(ofSome)
    BY <2>1, FS_Subset DEF ConsentAssumption
  <2> QED BY <2>2, InSomeOrder
<1>4. \A l \in Lines : Good(Consent!Invalidate(l))
  BY DEF Consent!Invalidate, WriteRecords, Ops
<1>5. \A l \in ofSome : Good(OfSubject(l))
  <2> SUFFICES ASSUME NEW l \in ofSome
               PROVE  Good(OfSubject(l))
    OBVIOUS
  <2>1. CASE l \notin Consent!Covered(book)
    BY <2>1, <1>2, <1>4
  <2>2. CASE l \in Consent!Covered(book)
    <3>1. l \in Lines /\ book[l] \in Readings
      BY <2>2, <1>2 DEF Consent!Subjects, Consent!Covered
    <3>2. Good(Consent!Renew(l, book[l])) /\ Good(Consent!Save(l, book[l]))
      BY <2>2, <3>1 DEF Consent!Renew, Consent!Save, WriteRecords, Ops
    <3> QED BY <2>2, <3>2
  <2> QED BY <2>1, <2>2
<1> HIDE DEF Good, OfSubject
<1>6. first \in Seq(WriteRecords) /\ \A i \in 1..Len(first) : Good(first[i])
  <2>1. \A i \in 1..Len(gone) : gone[i] \in Lines
    BY <1>3
  <2> HIDE DEF gone
  <2>2. DOMAIN gone = 1..Len(gone) /\ Len(gone) \in Nat
    BY <1>3
  <2>3. \A i \in 1..Len(gone) : first[i] \in WriteRecords /\ Good(first[i])
    BY <1>4, <2>1, <2>2 DEF Good
  <2>4. first = [i \in 1..Len(gone) |-> first[i]] /\ Len(first) = Len(gone)
    BY <2>2
  <2> QED BY <2>2, <2>3, <2>4
<1>7. second \in Seq(WriteRecords) /\ \A i \in 1..Len(second) : Good(second[i])
  <2>1. \A i \in 1..Len(order) : order[i] \in ofSome
    BY <1>3
  <2>2. DOMAIN order = 1..Len(order) /\ Len(order) \in Nat
    BY <1>3
  <2> HIDE DEF order, ofSome
  <2>3. \A i \in 1..Len(order) : second[i] \in WriteRecords /\ Good(second[i])
    BY <1>5, <2>1, <2>2 DEF Good
  <2>4. second = [i \in 1..Len(order) |-> second[i]] /\ Len(second) = Len(order)
    BY <2>2
  <2> QED BY <2>2, <2>3, <2>4
<1> HIDE DEF first, second
<1>8. \A i \in 1..Len(first \o second) : Good((first \o second)[i])
  BY <1>6, <1>7, EitherPart
<1> QED BY <1>1, <1>6, <1>7, <1>8 DEF Good
-----------------------------------------------------------------------------
(* The section                                                             *)

(* Two calls of one process do not write at once; where there is one       *)
(* process, no two calls do.                                               *)
LEMMA OneWriter ==
  ASSUME HostsOK, Consent!OneProcess, NEW c \in Clerks, NEW d \in Clerks, Consent!Holds(c),
     Consent!Holds(d)
  PROVE  c = d
<1>1. cHostOf[c] \in DOMAIN cSection /\ cHostOf[d] \in DOMAIN cSection
  BY DEF HostsOK
<1>2. DOMAIN cSection \subseteq {"web", "command"}
  BY DEF HostsOK
<1>3. IsFiniteSet(DOMAIN cSection)
  <2>1. IsFiniteSet({"web"}) /\ {"web", "command"} = {"web"} \cup {"command"}
    BY FS_Singleton
  <2>2. IsFiniteSet({"web"} \cup {"command"})
    BY <2>1, FS_AddElement
  <2> QED BY <1>2, <2>1, <2>2, FS_Subset
<1>4. PICK h : DOMAIN cSection = {h}
  BY <1>3, FS_Singleton DEF Consent!OneProcess, Cardinality, Consent!Cardinality
<1>5. cHostOf[c] = cHostOf[d]
  BY <1>1, <1>4
<1> QED BY <1>5 DEF Consent!Holds, Consent!Host

(* A call that goes on with sound writes, or with none, leaves every other *)
(* call as it was.                                                         *)
LEMMA GoesOn ==
  ASSUME HostsOK, ClerksOK, NEW c \in Clerks, Consent!Holds(c), cClerk[c].pc \in {"waiting", "writing"},
         NEW todo \in Seq(WriteRecords), Consent!Goes(c, todo), UNCHANGED cHostOf,
            cConsents \subseteq cConsents',
         \A i \in 1..Len(todo) :
           Sound(todo[i], cConsents') /\ Respects(cClerk[c].act, todo[i], cExcluded')
  PROVE  HostsOK' /\ ClerksOK'
<1>1. cClerk[c] \in ClerkRecords /\ ClerkOK(c)
  BY DEF ClerksOK
<1>2. /\ cClerk' \in [Clerks -> ClerkRecords]
      /\ \A d \in Clerks \ {c} : cClerk'[d] = cClerk[d]
      /\ \/ /\ cClerk'[c].pc = "idle" /\ todo = << >>
         \/ /\ cClerk'[c] = [cClerk[c] EXCEPT !.pc = "writing", !.todo = todo] /\ todo # << >>
            /\ UNCHANGED cSection
  <2>1. CASE todo = << >>
    <3>1. cClerk' = [cClerk EXCEPT ![c] = Consent!Idle]
      BY <2>1 DEF Consent!Goes, Consent!Leaves
    <3>2. Consent!Idle \in ClerkRecords /\ Consent!Idle.pc = "idle"
      BY DEF Consent!Idle, ClerkRecords, Consent!NoReadings, Acts
    <3> QED BY <2>1, <3>1, <3>2 DEF ClerksOK
  <2>2. CASE todo # << >>
    <3>1. cClerk' = [cClerk EXCEPT ![c].pc = "writing", ![c].todo = todo] /\ UNCHANGED cSection
      BY <2>2 DEF Consent!Goes
    <3>2. cClerk' = [cClerk EXCEPT ![c] = [cClerk[c] EXCEPT !.pc = "writing", !.todo = todo]]
      BY <1>1, <3>1 DEF ClerksOK, ClerkRecords
    <3>3. [cClerk[c] EXCEPT !.pc = "writing", !.todo = todo] \in ClerkRecords
      BY <1>1 DEF ClerkRecords
    <3> QED BY <2>2, <3>1, <3>2, <3>3 DEF ClerksOK
  <2> QED BY <2>1, <2>2
<1>3. /\ DOMAIN cSection' = DOMAIN cSection
      /\ cSection' \in [{cHostOf[d] : d \in Clerks} -> Seq(Clerks)]
      /\ \A d \in Clerks : cHostOf[d] # cHostOf[c] => cSection'[cHostOf[d]] = cSection[cHostOf[d]]
  <2>1. CASE UNCHANGED cSection
    BY <2>1 DEF HostsOK
  <2>2. CASE cSection' = [cSection EXCEPT ![Consent!Host(c)] = Tail(@)]
    <3>1. Tail(cSection[cHostOf[c]]) \in Seq(Clerks)
      BY DEF HostsOK, Consent!Holds, Consent!Host
    <3> QED BY <2>2, <3>1 DEF HostsOK, Consent!Host
  <2> QED BY <2>1, <2>2 DEF Consent!Goes, Consent!Leaves
<1>4. HostsOK'
  BY <1>3 DEF HostsOK
<1>5. Consent!OneProcess' <=> Consent!OneProcess
  BY <1>3 DEF Consent!OneProcess
<1>6. ASSUME NEW d \in Clerks \ {c}
      PROVE  ClerkOK(d)'
  <2>1. ClerkOK(d) /\ cClerk'[d] = cClerk[d]
    BY <1>2 DEF ClerksOK
  <2>2. CASE cClerk[d].pc # "writing"
    BY <2>1, <2>2 DEF ClerkOK
  <2>3. CASE cClerk[d].pc = "writing"
    <3>1. Consent!Holds(d)
      BY <2>1, <2>3 DEF ClerkOK
    <3>2. cHostOf[d] # cHostOf[c]
      BY <3>1 DEF Consent!Holds, Consent!Host
    <3>3. Consent!Holds(d)'
      BY <1>3, <3>1, <3>2 DEF Consent!Holds, Consent!Host
    <3>4. ~Consent!OneProcess
      BY <3>1, OneWriter
    <3>5. \A i \in 1..Len(cClerk[d].todo) :
            /\ Sound(cClerk[d].todo[i], cConsents')
            /\ Respects(cClerk[d].act, cClerk[d].todo[i], cExcluded)'
      <4> TAKE i \in 1..Len(cClerk[d].todo)
      <4>1. Sound(cClerk[d].todo[i], cConsents) /\ Respects(cClerk[d].act, cClerk[d].todo[i], cExcluded)
        BY <2>1, <2>3 DEF ClerkOK
      <4>2. Sound(cClerk[d].todo[i], cConsents')
        BY <4>1 DEF Sound, Said
      <4>3. Respects(cClerk[d].act, cClerk[d].todo[i], cExcluded)'
        BY <4>1, <2>1, <3>4, <1>5 DEF Respects
      <4> QED BY <4>2, <4>3
    <3> QED BY <2>1, <2>3, <3>3, <3>5 DEF ClerkOK
  <2> QED BY <2>2, <2>3
<1>7. ClerkOK(c)'
  <2>1. CASE cClerk'[c].pc = "idle"
    BY <2>1 DEF ClerkOK
  <2>2. CASE /\ cClerk'[c] = [cClerk[c] EXCEPT !.pc = "writing", !.todo = todo] /\ todo # << >>
             /\ UNCHANGED cSection
    <3>1. /\ cClerk'[c].pc = "writing" /\ cClerk'[c].todo = todo /\ cClerk'[c].act = cClerk[c].act
          /\ cClerk'[c].lines = cClerk[c].lines /\ cClerk'[c].book = cClerk[c].book
      BY <2>2, <1>1 DEF ClerkRecords
    <3>2. Consent!Holds(c)'
      BY <2>2 DEF Consent!Holds, Consent!Host
    <3>3. \A i \in 1..Len(todo) : Respects(cClerk[c].act, todo[i], cExcluded)'
      BY <3>1, <1>5 DEF Respects
    <3> QED BY <1>1, <2>2, <3>1, <3>2, <3>3 DEF ClerkOK
  <2> QED BY <1>2, <2>1, <2>2
<1> QED BY <1>2, <1>4, <1>6, <1>7 DEF ClerksOK
-----------------------------------------------------------------------------
(* The steps                                                               *)

(* The catalog is as sound as it was if nothing is written to it.          *)
LEMMA CatalogStands ==
  ASSUME CatalogOK, UNCHANGED Consent!catalog, cConsents \subseteq cConsents'
  PROVE  CatalogOK'
BY DEF CatalogOK, Consent!catalog, Said, Consent!Unambiguous

(* A call that has not come to write yet may change its own record.        *)
LEMMA OthersGoOn ==
  ASSUME HostsOK, HostsOK', ClerksOK, NEW c \in Clerks, cClerk' \in [Clerks -> ClerkRecords],
         \A d \in Clerks \ {c} : cClerk'[d] = cClerk[d], ClerkOK(c)',
         \A d \in Clerks : Consent!Holds(d) => Consent!Holds(d)',
            Consent!OneProcess' <=> Consent!OneProcess,
         UNCHANGED <<Consent!catalog, cConsents>>
  PROVE  ClerksOK'
<1>1. ASSUME NEW d \in Clerks \ {c}
      PROVE  ClerkOK(d)'
  <2>1. ClerkOK(d) /\ cClerk'[d] = cClerk[d] /\ (Consent!Holds(d) => Consent!Holds(d)')
    BY DEF ClerksOK
  <2>2. \A act, w : Respects(act, w, cExcluded)' <=> Respects(act, w, cExcluded)
    BY DEF Respects, Consent!catalog
  <2>3. \A w : Sound(w, cConsents)' <=> Sound(w, cConsents)
    BY DEF Sound, Said
  <2> QED BY <2>1, <2>2, <2>3 DEF ClerkOK
<1> QED BY <1>1 DEF ClerksOK

LEMMA InitConsent ==
  ASSUME ConsentAssumption, Consent!Init
  PROVE  ConsentInv
<1>1. BoundsOK
  BY DEF ConsentAssumption, Consent!Init, BoundsOK, Scripts
<1>2. CatalogOK
  BY DEF ConsentAssumption, Consent!Init, CatalogOK, Consent!NoReadings, Consent!NoGrant, Grants,
         Said, Consent!Unambiguous
<1>3. HostsOK
  <2>1. cSection = [h \in {cHostOf[c] : c \in Clerks} |-> << >>]
    BY DEF Consent!Init
  <2>2. << >> \in Seq(Clerks)
    OBVIOUS
  <2> QED BY <2>1, <2>2 DEF ConsentAssumption, Consent!Init, HostsOK
<1>4. ClerksOK
  <2>1. Consent!Idle \in ClerkRecords /\ Consent!Idle.pc = "idle"
    BY DEF Consent!Idle, ClerkRecords, Consent!NoReadings, Acts
  <2>2. cClerk = [c \in Clerks |-> Consent!Idle]
    BY DEF Consent!Init
  <2> QED BY <2>1, <2>2 DEF ClerksOK, ClerkOK
<1> QED BY <1>1, <1>2, <1>3, <1>4 DEF ConsentInv

LEMMA RedirectConsent ==
  ASSUME ConsentAssumption, ConsentInv, Consent!Redirect
  PROVE  ConsentInv'
<1>1. BoundsOK'
  BY DEF ConsentAssumption, ConsentInv, Consent!Redirect, BoundsOK, Scripts
<1>2. CatalogOK'
  BY CatalogStands DEF ConsentInv, Consent!Redirect
<1>3. HostsOK'
  BY DEF ConsentInv, Consent!Redirect, HostsOK
<1>4. ClerksOK'
  <2>1. UNCHANGED <<cClerk, cSection, cHostOf, Consent!catalog, cConsents>>
    BY DEF Consent!Redirect
  <2>2. \A c \in Clerks : Consent!Holds(c)' <=> Consent!Holds(c)
    BY <2>1 DEF Consent!Holds, Consent!Host
  <2>3. \A act, w : Respects(act, w, cExcluded)' <=> Respects(act, w, cExcluded)
    BY <2>1 DEF Respects, Consent!OneProcess, Consent!catalog
  <2>4. \A w : Sound(w, cConsents)' <=> Sound(w, cConsents)
    BY <2>1 DEF Sound, Said
  <2> QED BY <2>1, <2>2, <2>3, <2>4 DEF ConsentInv, ClerksOK, ClerkOK
<1> QED BY <1>1, <1>2, <1>3, <1>4 DEF ConsentInv

LEMMA AsksConsent ==
  ASSUME ConsentAssumption, ConsentInv, NEW c \in Clerks, NEW act \in Acts \ {"look"},
         NEW lines \in SUBSET Lines, Consent!Asks(c, act, lines),
         act \in {"approve", "withdraw"} => \E l \in Lines : lines = {l}
  PROVE  ConsentInv'
<1>1. BoundsOK'
  BY DEF ConsentAssumption, ConsentInv, Consent!Asks, BoundsOK
<1>2. CatalogOK'
  BY CatalogStands DEF ConsentInv, Consent!Asks
<1>3. HostsOK'
  BY DEF ConsentInv, Consent!Asks, HostsOK
<1>4. cClerk[c] \in ClerkRecords
  BY DEF ConsentInv, ClerksOK
<1>5. cClerk' = [cClerk EXCEPT ![c] = [cClerk[c] EXCEPT !.pc = "asked", !.act = act, !.lines = lines]]
  BY <1>4 DEF Consent!Asks, ConsentInv, ClerksOK, ClerkRecords
<1>6. [cClerk[c] EXCEPT !.pc = "asked", !.act = act, !.lines = lines] \in ClerkRecords
  BY <1>4 DEF ClerkRecords
<1>7. /\ cClerk' \in [Clerks -> ClerkRecords]
      /\ \A d \in Clerks \ {c} : cClerk'[d] = cClerk[d]
      /\ cClerk'[c] = [cClerk[c] EXCEPT !.pc = "asked", !.act = act, !.lines = lines]
  BY <1>5, <1>6 DEF ConsentInv, ClerksOK
<1>8. cClerk'[c].pc = "asked" /\ cClerk'[c].act = act /\ cClerk'[c].lines = lines
  BY <1>4, <1>7 DEF ClerkRecords
<1>9. ClerkOK(c)'
  BY <1>8 DEF ClerkOK
<1>10. ClerksOK'
  <2>1. \A d \in Clerks : Consent!Holds(d) => Consent!Holds(d)'
    BY DEF Consent!Asks, Consent!Holds, Consent!Host
  <2>2. Consent!OneProcess' <=> Consent!OneProcess
    BY DEF Consent!Asks, Consent!OneProcess
  <2>3. UNCHANGED <<Consent!catalog, cConsents>>
    BY DEF Consent!Asks
  <2> QED BY <1>3, <1>7, <1>9, <2>1, <2>2, <2>3, OthersGoOn DEF ConsentInv
<1> QED BY <1>1, <1>2, <1>3, <1>10 DEF ConsentInv

LEMMA AskConsent ==
  ASSUME ConsentAssumption, ConsentInv, NEW c \in Clerks, Consent!Ask(c)
  PROVE  ConsentInv'
<1>1. \A decisions : Consent!Shown(decisions) \subseteq Lines
  BY DEF Consent!Shown, Consent!Subjects
<1>2. PICK act \in Acts \ {"look"}, lines \in SUBSET Lines :
        /\ Consent!Asks(c, act, lines)
        /\ act \in {"approve", "withdraw"} => \E l \in Lines : lines = {l}
  <2>1. CASE Consent!AskOne(c)
    BY <1>1, <2>1 DEF Consent!AskOne, Acts
  <2>2. CASE Consent!AskSelected(c)
    BY <1>1, <2>2 DEF Consent!AskSelected, Acts
  <2>3. CASE Consent!AskAll(c)
    BY <2>3 DEF Consent!AskAll, Acts
  <2>4. CASE Consent!AskWithdrawal(c)
    BY <1>1, <2>4 DEF Consent!AskWithdrawal, Acts
  <2>5. CASE Consent!AskBook(c)
    BY <2>5 DEF Consent!AskBook, Acts
  <2> QED BY <2>1, <2>2, <2>3, <2>4, <2>5 DEF Consent!Ask
<1> QED BY <1>2, AsksConsent

LEMMA LoadConsent ==
  ASSUME ConsentAssumption, ConsentInv, NEW c \in Clerks, Consent!Load(c)
  PROVE  ConsentInv'
<1>1. BoundsOK'
  BY DEF ConsentInv, Consent!Load, BoundsOK
<1>2. CatalogOK'
  BY CatalogStands DEF ConsentInv, Consent!Load
<1>3. /\ HostsOK'
      /\ DOMAIN cSection' = DOMAIN cSection
      /\ \A d \in Clerks : Consent!Holds(d) => Consent!Holds(d)'
  <2>1. cSection' = [cSection EXCEPT ![cHostOf[c]] = Append(@, c)] /\ UNCHANGED cHostOf
    BY DEF Consent!Load, Consent!Host
  <2>2. cHostOf[c] \in DOMAIN cSection /\ cSection[cHostOf[c]] \in Seq(Clerks)
    BY DEF ConsentInv, HostsOK
  <2>3. Append(cSection[cHostOf[c]], c) \in Seq(Clerks)
    BY <2>2
  <2>4. cSection[cHostOf[c]] # << >> =>
          /\ Head(Append(cSection[cHostOf[c]], c)) = Head(cSection[cHostOf[c]])
          /\ Append(cSection[cHostOf[c]], c) # << >>
    BY <2>2
  <2>5. HostsOK'
    BY <2>1, <2>3 DEF ConsentInv, HostsOK
  <2>6. DOMAIN cSection' = DOMAIN cSection
    BY <2>1
  <2>7. ASSUME NEW d \in Clerks, Consent!Holds(d)
        PROVE  Consent!Holds(d)'
    <3>1. CASE cHostOf[d] = cHostOf[c]
      BY <2>1, <2>2, <2>4, <2>7, <3>1 DEF Consent!Holds, Consent!Host
    <3>2. CASE cHostOf[d] # cHostOf[c]
      BY <2>1, <2>7, <3>2 DEF Consent!Holds, Consent!Host
    <3> QED BY <3>1, <3>2
  <2> QED BY <2>5, <2>6, <2>7
<1>4. cClerk[c] \in ClerkRecords /\ ClerkOK(c) /\ cClerk[c].pc = "asked" /\ cScript \in Scripts
  BY DEF ConsentInv, ClerksOK, Consent!Load, Consent!At, BoundsOK
<1>5. cClerk' = [cClerk EXCEPT ![c] = [cClerk[c] EXCEPT !.pc = "waiting", !.book = cScript]]
  BY <1>4 DEF Consent!Load, ConsentInv, ClerksOK, ClerkRecords
<1>6. [cClerk[c] EXCEPT !.pc = "waiting", !.book = cScript] \in ClerkRecords
  BY <1>4 DEF ClerkRecords, Scripts
<1>7. /\ cClerk' \in [Clerks -> ClerkRecords]
      /\ \A d \in Clerks \ {c} : cClerk'[d] = cClerk[d]
      /\ cClerk'[c] = [cClerk[c] EXCEPT !.pc = "waiting", !.book = cScript]
  BY <1>5, <1>6 DEF ConsentInv, ClerksOK
<1>8. /\ cClerk'[c].pc = "waiting" /\ cClerk'[c].act = cClerk[c].act
      /\ cClerk'[c].lines = cClerk[c].lines /\ cClerk'[c].book = cScript
  BY <1>4, <1>7 DEF ClerkRecords
<1>9. ClerkOK(c)'
  BY <1>4, <1>8 DEF ClerkOK
<1>10. ClerksOK'
  <2>1. Consent!OneProcess' <=> Consent!OneProcess
    BY <1>3 DEF Consent!OneProcess
  <2>2. UNCHANGED <<Consent!catalog, cConsents>>
    BY DEF Consent!Load
  <2> QED BY <1>3, <1>7, <1>9, <2>1, <2>2, OthersGoOn DEF ConsentInv
<1> QED BY <1>1, <1>2, <1>3, <1>10 DEF ConsentInv
(* What a call that is not refused has to write has been decided with it,  *)
(* and saves a line only where it was asked for that line.                 *)
LEMMA WritesAreDecided ==
  ASSUME ConsentAssumption, ConsentInv, NEW c \in Clerks, Consent!At(c, "waiting"), ~Consent!Refused(c),
         NEW said, said = cConsents \cup {<<l, cClerk[c].book[l]>> : l \in Consent!Decided(c)}
  PROVE  /\ Consent!Writes(c) \in Seq(WriteRecords) /\ Consent!Writes(c) # << >>
         /\ \A i \in 1..Len(Consent!Writes(c)) :
              /\ Sound(Consent!Writes(c)[i], said)
              /\ Respects(cClerk[c].act, Consent!Writes(c)[i], cExcluded)
<1> DEFINE me == cClerk[c]
           line == CHOOSE l \in me.lines : TRUE
<1>1. /\ me \in ClerkRecords /\ me.book \in Scripts /\ me.act \in Acts \ {"look"}
      /\ me.act \in {"approve", "withdraw"} => \E l \in Lines : me.lines = {l}
  BY DEF ConsentInv, ClerksOK, ClerkOK, Consent!At, ClerkRecords
<1>2. Consent!Subjects(me.book) = {l \in Lines : me.book[l] \in Readings}
  BY DEF Consent!Subjects
<1>3. Consent!Reconcile \in WriteRecords /\ Sound(Consent!Reconcile, said)
  BY DEF Consent!Reconcile, Sound, WriteRecords, Ops
<1>4. me.act # "withdraw" => Respects(me.act, Consent!Reconcile, cExcluded)
  BY DEF Respects, Consent!Reconcile
<1>5. CASE me.act = "approve"
  <2>1. PICK l \in Lines : me.lines = {l}
    BY <1>1, <1>5
  <2>2. line = l
    BY <2>1
  <2>3. me.book[l] \in Readings
    BY <1>2, <1>5, <2>1 DEF Consent!Refused
  <2>4. <<l, me.book[l]>> \in said
    BY <1>5, <2>1 DEF Consent!Decided
  <2>5. Consent!Writes(c) = <<Consent!Save(l, me.book[l])>>
    BY <1>5, <2>2 DEF Consent!Writes
  <2>6. Consent!Save(l, me.book[l]) \in WriteRecords /\ Sound(Consent!Save(l, me.book[l]), said)
    BY <2>3, <2>4 DEF Consent!Save, Sound, WriteRecords, Ops
  <2>7. Respects(me.act, Consent!Save(l, me.book[l]), cExcluded)
    BY <1>5 DEF Respects, Consent!Save
  <2> HIDE DEF me
  <2> QED BY <2>5, <2>6, <2>7 DEF me
<1>6. CASE me.act = "withdraw"
  <2>1. PICK l \in Lines : me.lines = {l}
    BY <1>1, <1>6
  <2>2. line = l
    BY <2>1
  <2>3. Consent!Writes(c) = <<Consent!Op("withdraw", l)>>
    BY <1>6, <2>2 DEF Consent!Writes
  <2>4. Consent!Op("withdraw", l) \in WriteRecords /\ Sound(Consent!Op("withdraw", l), said)
    BY DEF Consent!Op, Sound, WriteRecords, Ops
  <2>5. Respects(me.act, Consent!Op("withdraw", l), cExcluded)
    BY <1>6 DEF Respects, Consent!Op
  <2> QED BY <2>3, <2>4, <2>5
<1>7. CASE me.act = "ungrant"
  <2>1. Consent!Writes(c) = <<Consent!Op("ungrant", NoReading)>>
    BY <1>7 DEF Consent!Writes
  <2>2. Consent!Op("ungrant", NoReading) \in WriteRecords /\ Sound(Consent!Op("ungrant",
     NoReading), said)
    BY DEF Consent!Op, Sound, WriteRecords, Ops
  <2>3. Respects(me.act, Consent!Op("ungrant", NoReading), cExcluded)
    BY <1>7 DEF Respects, Consent!Op
  <2> QED BY <2>1, <2>2, <2>3
<1>8. CASE me.act = "reconcile"
  <2>1. Consent!Writes(c) = <<Consent!Reconcile>>
    BY <1>8 DEF Consent!Writes
  <2>2. Respects(me.act, Consent!Reconcile, cExcluded)
    BY <1>4, <1>8
  <2>3. Consent!Writes(c) \in Seq(WriteRecords) /\ Consent!Writes(c) # << >>
        /\ \A i \in 1..Len(Consent!Writes(c)) : Consent!Writes(c)[i] = Consent!Reconcile
    BY <1>3, <2>1
  <2> QED BY <1>3, <2>2, <2>3
<1>9. CASE me.act \in {"select", "all"}
  <2>1. Consent!GrantedLines(c) \subseteq Consent!Subjects(me.book)
    BY <1>9 DEF Consent!GrantedLines, Consent!Refused, Consent!Offerable
  <2>2. CASE Consent!GrantedLines(c) = {}
    <3>1. Consent!Writes(c) = <<Consent!Reconcile>>
      BY <1>9, <2>2 DEF Consent!Writes
    <3> QED BY <1>3, <1>4, <1>9, <3>1
  <2>3. CASE Consent!GrantedLines(c) # {}
    <3> DEFINE given == Consent!Grant(me.book, Consent!GrantedLines(c))
    <3>1. Consent!Writes(c) = <<given, Consent!Reconcile>>
      BY <1>9, <2>3 DEF Consent!Writes
    <3>2. given.op = "grant" /\ given.line = NoReading
          /\ given.reading = [l \in Lines |-> IF l \in Consent!GrantedLines(c) THEN me.book[l] ELSE NoReading]
          /\ given = [op |-> given.op, line |-> given.line, reading |-> given.reading]
      BY DEF Consent!Grant
    <3>3. given.reading \in Grants
      BY <1>2, <2>1, <3>2 DEF Grants
    <3>4. Said(given.reading, said)
      BY <1>9, <3>2 DEF Said, Consent!Decided
    <3>5. given \in WriteRecords
      BY <3>2, <3>3 DEF WriteRecords, Ops
    <3>6. Sound(given, said)
      BY <3>2, <3>3, <3>4, <3>5 DEF Sound
    <3>7. Respects(me.act, given, cExcluded)
      BY <1>9, <3>2 DEF Respects
    <3> HIDE DEF given
    <3> QED BY <1>3, <1>4, <1>9, <3>1, <3>5, <3>6, <3>7
  <2> QED BY <2>2, <2>3
<1> QED BY <1>1, <1>5, <1>6, <1>7, <1>8, <1>9 DEF Acts

LEMMA EnterConsent ==
  ASSUME ConsentAssumption, ConsentInv, NEW c \in Clerks, Consent!Enter(c)
  PROVE  ConsentInv'
<1>1. BoundsOK'
  BY DEF ConsentInv, Consent!Enter, BoundsOK
<1>2. cConsents \subseteq cConsents'
  BY DEF Consent!Enter
<1>3. CatalogOK'
  BY <1>2, CatalogStands DEF ConsentInv, Consent!Enter
<1>4. Consent!Holds(c) /\ cClerk[c].pc \in {"waiting",
   "writing"} /\ UNCHANGED cHostOf /\ cExcluded' = cExcluded
  BY DEF Consent!Enter, Consent!At, Consent!catalog
<1>5. HostsOK' /\ ClerksOK'
  <2>1. CASE Consent!Refused(c)
    <3>1. << >> \in Seq(WriteRecords) /\ Consent!Goes(c, << >>)
      BY <2>1 DEF Consent!Enter, Consent!Goes
    <3>2. \A i \in 1..Len(<< >>) :
            Sound(<< >>[i], cConsents') /\ Respects(cClerk[c].act, << >>[i], cExcluded')
      OBVIOUS
    <3> QED BY <1>2, <1>4, <3>1, <3>2, GoesOn DEF ConsentInv
  <2>2. CASE ~Consent!Refused(c)
    <3>1. /\ Consent!Goes(c, Consent!Writes(c))
          /\ cConsents' = cConsents \cup {<<l, cClerk[c].book[l]>> : l \in Consent!Decided(c)}
      BY <2>2 DEF Consent!Enter
    <3>2. /\ Consent!Writes(c) \in Seq(WriteRecords)
          /\ \A i \in 1..Len(Consent!Writes(c)) :
               /\ Sound(Consent!Writes(c)[i], cConsents')
               /\ Respects(cClerk[c].act, Consent!Writes(c)[i], cExcluded')
      BY <1>4, <2>2, <3>1, WritesAreDecided DEF Consent!Enter
    <3> QED BY <1>2, <1>4, <3>1, <3>2, GoesOn DEF ConsentInv
  <2> QED BY <2>1, <2>2
<1> QED BY <1>1, <1>3, <1>5 DEF ConsentInv

LEMMA ReadCatalogConsent ==
  ASSUME ConsentAssumption, ConsentInv, NEW c \in Clerks, Consent!ReadCatalog(c)
  PROVE  ConsentInv'
<1>1. BoundsOK'
  BY DEF ConsentInv, Consent!ReadCatalog, BoundsOK
<1>2. UNCHANGED <<Consent!catalog, cConsents, cHostOf>> /\ cExcluded' = cExcluded
  BY DEF Consent!ReadCatalog, Consent!catalog
<1>3. CatalogOK'
  BY <1>2, CatalogStands DEF ConsentInv
<1> DEFINE book == cClerk[c].book
           todo == Consent!Reconciliation(book)
<1>4. /\ cClerk[c].pc = "writing" /\ book \in Scripts /\ ClerkOK(c) /\ cClerk[c] \in ClerkRecords
      /\ Consent!Holds(c) /\ Consent!Goes(c, todo)
  BY DEF ConsentInv, ClerksOK, ClerkOK, Consent!ReadCatalog, Consent!At
<1>5. cClerk[c].act # "withdraw"
  <2>1. cClerk[c].todo \in Seq(WriteRecords) /\ cClerk[c].todo # << >>
    BY <1>4 DEF ClerkOK, ClerkRecords
  <2>2. cClerk[c].todo[1].op = "reconcile" /\ 1 \in 1..Len(cClerk[c].todo)
    BY <2>1 DEF Consent!ReadCatalog, Consent!NextWrite
  <2> QED BY <1>4, <2>2 DEF ClerkOK, Respects
<1>6. Consent!Covered(book) \subseteq Lines \ cExcluded
      /\ \A l \in Consent!Covered(book) : book[l] \in Readings /\ <<l, book[l]>> \in cConsents
  BY <1>4 DEF Consent!Covered, Consent!Subjects, Consent!StillDescribes, ConsentInv, CatalogOK, Said
<1>7. /\ todo \in Seq(WriteRecords)
      /\ \A i \in 1..Len(todo) :
           \/ todo[i].op = "invalidate" /\ todo[i].line \in Lines
           \/ /\ todo[i].op \in {"save", "renew"} /\ todo[i].line \in Consent!Covered(book)
              /\ todo[i].reading = book[todo[i].line]
  BY <1>4, ReconciliationWrites DEF ConsentInv
<1> HIDE DEF book, todo
<1>8. \A i \in 1..Len(todo) :
        Sound(todo[i], cConsents') /\ Respects(cClerk[c].act, todo[i], cExcluded')
  <2> TAKE i \in 1..Len(todo)
  <2>1. todo[i] \in WriteRecords
    BY <1>7
  <2>2. CASE todo[i].op = "invalidate" /\ todo[i].line \in Lines
    BY <1>5, <2>1, <2>2 DEF Sound, Respects
  <2>3. CASE /\ todo[i].op \in {"save", "renew"} /\ todo[i].line \in Consent!Covered(book)
             /\ todo[i].reading = book[todo[i].line]
    BY <1>2, <1>5, <1>6, <2>1, <2>3 DEF Sound, Respects
  <2> QED BY <1>7, <2>2, <2>3
<1>9. HostsOK' /\ ClerksOK'
  BY <1>2, <1>4, <1>7, <1>8, GoesOn DEF ConsentInv
<1> QED BY <1>1, <1>3, <1>9 DEF ConsentInv
(* The transaction of a sound write leaves a sound catalog, and takes a    *)
(* withdrawal back only for a record it saves.                             *)
LEMMA WrittenCatalog ==
  ASSUME ConsentAssumption, ConsentInv, NEW c \in Clerks, Consent!Write(c)
  PROVE  /\ CatalogOK'
         /\ cExcluded' \subseteq cExcluded \/ cClerk[c].act = "withdraw"
         /\ cExcluded' = cExcluded
              \/ (Consent!NextWrite(c).op = "save" /\ cExcluded' = cExcluded \ {Consent!NextWrite(c).line})
              \/ (Consent!NextWrite(c).op = "withdraw" /\ cExcluded \subseteq cExcluded')
<1> DEFINE w == Consent!NextWrite(c)
<1>1. Sound(w, cConsents) /\ Respects(cClerk[c].act, w, cExcluded)
  <2>1. ClerkOK(c) /\ cClerk[c] \in ClerkRecords /\ cClerk[c].pc = "writing"
    BY DEF ConsentInv, ClerksOK, Consent!Write, Consent!At
  <2>2. cClerk[c].todo \in Seq(WriteRecords) /\ cClerk[c].todo # << >>
    BY <2>1 DEF ClerkOK, ClerkRecords
  <2>3. 1 \in 1..Len(cClerk[c].todo) /\ w = cClerk[c].todo[1]
    BY <2>2 DEF Consent!NextWrite
  <2> QED BY <2>1, <2>3 DEF ClerkOK
<1>2. CatalogOK /\ cConsents' = cConsents
  BY DEF ConsentInv, Consent!Write
<1>3. w.op \in Ops \ {"reconcile"}
  BY <1>1 DEF Sound, WriteRecords, Consent!Write
<1>4. CASE w.op = "save"
  <2>1. /\ cApproved' = [cApproved EXCEPT ![w.line] = w.reading]
        /\ cExcluded' = cExcluded \ {w.line} /\ UNCHANGED cGrant
    BY <1>4 DEF Consent!Write, Consent!StoreApproval
  <2>2. w.line \in Lines /\ w.reading \in Readings /\ <<w.line, w.reading>> \in cConsents
    BY <1>1, <1>4 DEF Sound
  <2> HIDE DEF w
  <2>3. CatalogOK'
    BY <1>2, <2>1, <2>2 DEF CatalogOK, Grants, Said, Consent!Unambiguous
  <2> QED BY <1>4, <2>1, <2>3 DEF w
<1>5. CASE w.op \in {"withdraw", "invalidate", "renew"}
  <2>1. /\ cApproved' = [cApproved EXCEPT ![w.line] = NoReading]
        /\ cExcluded' = IF w.op = "withdraw" THEN cExcluded \cup {w.line} ELSE cExcluded
        /\ UNCHANGED cGrant
    BY <1>5 DEF Consent!Write, Consent!StoreRevocation
  <2>2. w.line \in Lines /\ (w.op = "withdraw" => cClerk[c].act = "withdraw")
    BY <1>1, <1>5 DEF Sound, Respects
  <2> HIDE DEF w
  <2>3. CatalogOK'
    BY <1>2, <2>1, <2>2 DEF CatalogOK, Grants, Said, Consent!Unambiguous
  <2> QED BY <2>1, <2>2, <2>3 DEF w
<1>6. CASE w.op \in {"grant", "ungrant"}
  <2>1. /\ cGrant' = IF w.op = "grant" THEN w.reading ELSE Consent!NoGrant
        /\ UNCHANGED <<cApproved, cExcluded>>
    BY <1>6 DEF Consent!Write, Consent!StoreGrant
  <2>2. cGrant' \in Grants /\ Said(cGrant', cConsents)
    BY <1>1, <1>6, <2>1 DEF Sound, Consent!NoGrant, Consent!NoReadings, Grants, Said
  <2>3. CatalogOK'
    BY <1>2, <2>1, <2>2 DEF CatalogOK, Said, Consent!Unambiguous
  <2> QED BY <2>1, <2>3
<1> QED BY <1>3, <1>4, <1>5, <1>6 DEF Ops

(* What all writes of two sequences keep to, those of both together do.    *)
LEMMA BothDecided ==
  ASSUME NEW said, NEW act, NEW out, NEW s \in Seq(WriteRecords), NEW t \in Seq(WriteRecords),
         \A i \in 1..Len(s) : Sound(s[i], said) /\ Respects(act, s[i], out),
         \A i \in 1..Len(t) : Sound(t[i], said) /\ Respects(act, t[i], out)
  PROVE  \A i \in 1..Len(s \o t) : Sound((s \o t)[i], said) /\ Respects(act, (s \o t)[i], out)
<1> TAKE i \in 1..Len(s \o t)
<1>1. CASE \E j \in 1..Len(s) : (s \o t)[i] = s[j]
  BY <1>1
<1>2. CASE \E j \in 1..Len(t) : (s \o t)[i] = t[j]
  BY <1>2
<1> QED BY <1>1, <1>2, EitherPart

(* What is left to write after one transaction is as sound as it was.      *)
LEMMA RestIsDecided ==
  ASSUME ConsentAssumption, ConsentInv, NEW c \in Clerks, Consent!Write(c)
  PROVE  /\ Consent!Rest(c) \in Seq(WriteRecords)
         /\ \A i \in 1..Len(Consent!Rest(c)) :
              Sound(Consent!Rest(c)[i], cConsents') /\ Respects(cClerk[c].act, Consent!Rest(c)[i],
                 cExcluded')
<1> DEFINE w == Consent!NextWrite(c)
           todo == cClerk[c].todo
           act == cClerk[c].act
           first == IF w.op = "renew" THEN <<Consent!Save(w.line, w.reading)>> ELSE << >>
           Due(v) == Sound(v, cConsents') /\ Respects(act, v, cExcluded')
<1>1. ClerkOK(c) /\ cClerk[c] \in ClerkRecords /\ cClerk[c].pc = "writing" /\ cConsents' = cConsents
  BY DEF ConsentInv, ClerksOK, Consent!Write, Consent!At
<1>2. todo \in Seq(WriteRecords) /\ todo # << >>
  BY <1>1 DEF ClerkOK, ClerkRecords
<1>3. 1 \in 1..Len(todo) /\ w = todo[1]
  BY <1>2 DEF Consent!NextWrite
<1>4. \A i \in 1..Len(todo) : Sound(todo[i], cConsents) /\ Respects(act, todo[i], cExcluded)
  BY <1>1 DEF ClerkOK
<1>5. cExcluded' \subseteq cExcluded \/ act = "withdraw"
  BY WrittenCatalog
<1>6. \A v : Sound(v, cConsents) /\ Respects(act, v, cExcluded) => Due(v)
  BY <1>1, <1>5 DEF Respects
<1>7. \A i \in 1..Len(todo) : Due(todo[i])
  BY <1>4, <1>6
<1>8. first \in Seq(WriteRecords) /\ \A i \in 1..Len(first) : Due(first[i])
  <2>1. CASE w.op = "renew"
    <3>1. Sound(w, cConsents) /\ Respects(act, w, cExcluded)
      BY <1>3, <1>4
    <3>2. Consent!Save(w.line, w.reading) \in WriteRecords /\ Sound(Consent!Save(w.line,
       w.reading), cConsents)
      BY <2>1, <3>1 DEF Sound, Consent!Save, WriteRecords, Ops
    <3>3. Respects(act, Consent!Save(w.line, w.reading), cExcluded)
      BY <2>1, <3>1 DEF Respects, Consent!Save
    <3>4. Due(Consent!Save(w.line, w.reading))
      BY <1>6, <3>2, <3>3
    <3> HIDE DEF Due
    <3>5. first = <<Consent!Save(w.line, w.reading)>>
      BY <2>1
    <3> HIDE DEF first
    <3> QED BY <3>2, <3>4, <3>5
  <2>2. CASE w.op # "renew"
    BY <2>2
  <2> QED BY <2>1, <2>2
<1> HIDE DEF first, Due
<1>9. Tail(todo) \in Seq(WriteRecords) /\ \A i \in 1..Len(Tail(todo)) : Due(Tail(todo)[i])
  <2> HIDE DEF todo
  <2>1. Len(Tail(todo)) = Len(todo) - 1 /\ \A i \in 1..Len(Tail(todo)) : Tail(todo)[i] = todo[i + 1]
    BY <1>2
  <2> QED BY <1>2, <1>7, <2>1
<1>10. Consent!Rest(c) = first \o Tail(todo)
  BY DEF Consent!Rest, first
<1> HIDE DEF todo
<1>11. first \o Tail(todo) \in Seq(WriteRecords)
  BY <1>8, <1>9
<1>12. \A i \in 1..Len(first \o Tail(todo)) : Due((first \o Tail(todo))[i])
  <2>1. PICK said : said = cConsents'
    OBVIOUS
  <2>2. PICK out : out = cExcluded'
    OBVIOUS
  <2>3. \A i \in 1..Len(first) : Sound(first[i], said) /\ Respects(act, first[i], out)
    BY <1>8, <2>1, <2>2 DEF Due
  <2>4. \A i \in 1..Len(Tail(todo)) :
          Sound(Tail(todo)[i], said) /\ Respects(act, Tail(todo)[i], out)
    BY <1>9, <2>1, <2>2 DEF Due
  <2> HIDE DEF act
  <2>5. \A i \in 1..Len(first \o Tail(todo)) :
          Sound((first \o Tail(todo))[i], said) /\ Respects(act, (first \o Tail(todo))[i], out)
    <3>1. first \in Seq(WriteRecords) /\ Tail(todo) \in Seq(WriteRecords)
      BY <1>8, <1>9
    <3> HIDE DEF first
    <3> QED BY <3>1, <2>3, <2>4, BothDecided
  <2> QED BY <2>1, <2>2, <2>5 DEF Due
<1> QED BY <1>10, <1>11, <1>12 DEF Due

LEMMA WriteConsent ==
  ASSUME ConsentAssumption, ConsentInv, NEW c \in Clerks, Consent!Write(c)
  PROVE  ConsentInv'
<1>1. BoundsOK'
  BY DEF ConsentInv, Consent!Write, BoundsOK
<1>2. CatalogOK'
  BY WrittenCatalog
<1>3. /\ cClerk[c].pc \in {"waiting", "writing"} /\ Consent!Holds(c) /\ Consent!Goes(c, Consent!Rest(c))
      /\ UNCHANGED cHostOf /\ cConsents \subseteq cConsents'
  BY DEF ConsentInv, ClerksOK, ClerkOK, Consent!Write, Consent!At
<1>4. /\ Consent!Rest(c) \in Seq(WriteRecords)
      /\ \A i \in 1..Len(Consent!Rest(c)) :
           Sound(Consent!Rest(c)[i], cConsents') /\ Respects(cClerk[c].act, Consent!Rest(c)[i],
              cExcluded')
  BY RestIsDecided
<1>5. HostsOK' /\ ClerksOK'
  BY <1>3, <1>4, GoesOn DEF ConsentInv
<1> QED BY <1>1, <1>2, <1>5 DEF ConsentInv

LEMMA WriteLostConsent ==
  ASSUME ConsentAssumption, ConsentInv, NEW c \in Clerks, Consent!WriteLost(c)
  PROVE  ConsentInv'
<1>1. BoundsOK'
  BY DEF ConsentInv, Consent!WriteLost, BoundsOK
<1>2. CatalogOK'
  BY CatalogStands DEF ConsentInv, Consent!WriteLost
<1>3. /\ cClerk[c].pc \in {"waiting", "writing"} /\ Consent!Holds(c) /\ Consent!Goes(c, << >>)
      /\ UNCHANGED cHostOf /\ cConsents \subseteq cConsents' /\ << >> \in Seq(WriteRecords)
  BY DEF ConsentInv, ClerksOK, ClerkOK, Consent!WriteLost, Consent!At, Consent!Goes
<1>4. \A i \in 1..Len(<< >>) :
        Sound(<< >>[i], cConsents') /\ Respects(cClerk[c].act, << >>[i], cExcluded')
  OBVIOUS
<1>5. HostsOK' /\ ClerksOK'
  BY <1>3, <1>4, GoesOn DEF ConsentInv
<1> QED BY <1>1, <1>2, <1>5 DEF ConsentInv

LEMMA NextConsent ==
  ASSUME ConsentAssumption, ConsentInv, [Consent!Next]_(Consent!vars)
  PROVE  ConsentInv'
<1>1. CASE Consent!Redirect
  BY <1>1, RedirectConsent
<1>2. ASSUME NEW c \in Clerks, Consent!Ask(c) \/ Consent!Call(c) \/ Consent!WriteLost(c)
      PROVE  ConsentInv'
  <2>1. CASE Consent!Ask(c)
    BY <2>1, AskConsent
  <2>2. CASE Consent!Load(c)
    BY <2>2, LoadConsent
  <2>3. CASE Consent!Enter(c)
    BY <2>3, EnterConsent
  <2>4. CASE Consent!Write(c)
    BY <2>4, WriteConsent
  <2>5. CASE Consent!ReadCatalog(c)
    BY <2>5, ReadCatalogConsent
  <2>6. CASE Consent!WriteLost(c)
    BY <2>6, WriteLostConsent
  <2> QED BY <1>2, <2>1, <2>2, <2>3, <2>4, <2>5, <2>6 DEF Consent!Call
<1>3. CASE UNCHANGED Consent!vars
  <2>1. UNCHANGED <<cScript, cApproved, cExcluded, cGrant, cClerk, cHostOf, cSection, cActs,
     cRedirections, cConsents>>
    BY <1>3 DEF Consent!vars, Consent!catalog
  <2>2. BoundsOK' /\ HostsOK'
    BY <2>1 DEF ConsentInv, BoundsOK, HostsOK
  <2>3. CatalogOK'
    BY <2>1, CatalogStands DEF ConsentInv, Consent!catalog
  <2>4. \A c \in Clerks : Consent!Holds(c)' <=> Consent!Holds(c)
    BY <2>1 DEF Consent!Holds, Consent!Host
  <2>5. \A act, w : Respects(act, w, cExcluded)' <=> Respects(act, w, cExcluded)
    BY <2>1 DEF Respects, Consent!OneProcess
  <2>6. \A w : Sound(w, cConsents)' <=> Sound(w, cConsents)
    BY <2>1 DEF Sound, Said
  <2>7. ClerksOK'
    BY <2>1, <2>4, <2>5, <2>6 DEF ConsentInv, ClerksOK, ClerkOK
  <2> QED BY <2>2, <2>3, <2>7 DEF ConsentInv
<1> QED BY <1>1, <1>2, <1>3 DEF Consent!Next

-----------------------------------------------------------------------------
(* Decisions for the book                                                  *)

(* A reconciliation begins with one task for every line that needs one.    *)
LEMMA ReconciliationPlans ==
  ASSUME ConsentAssumption, NEW book
  PROVE  Tasks(Consent!Reconciliation(book), book)
<1> DEFINE ofNone == Stale(book) \ Consent!Subjects(book)
           ofSome == (Stale(book) \cap Consent!Subjects(book)) \cup Consent!Covered(book)
           gone == Consent!SetToSeq(ofNone)
           order == Consent!SetToSeq(ofSome)
           OfSubject(l) ==
             IF l \notin Consent!Covered(book) THEN Consent!Invalidate(l)
             ELSE IF l \in Stale(book) THEN Consent!Renew(l, book[l]) ELSE Consent!Save(l, book[l])
           first == [i \in DOMAIN gone |-> Consent!Invalidate(gone[i])]
           second == [i \in DOMAIN order |-> OfSubject(order[i])]
           Good(w) ==
             \/ w.op = "invalidate" /\ w.line \in Lines \ Grantable(book)
             \/ /\ w.op \in {"save", "renew"} /\ w.line \in Consent!Subjects(book)
                /\ w.reading = book[w.line]
<1>1. Consent!Reconciliation(book) = first \o second
  BY DEF Consent!Reconciliation, Stale
<1>2. /\ Consent!Covered(book) = Grantable(book) \ Consent!Live(book) /\ Grantable(book) \subseteq Consent!Subjects(book)
      /\ Consent!Subjects(book) \subseteq Lines /\ Stale(book) \subseteq Lines \ Consent!Live(book)
  BY DEF Consent!Covered, Grantable, Consent!Subjects, Stale
<1>3. IsFiniteSet(ofNone) /\ IsFiniteSet(ofSome)
  <2>1. ofNone \subseteq Lines /\ ofSome \subseteq Lines
    BY <1>2
  <2> QED BY <2>1, FS_Subset DEF ConsentAssumption
<1>4. \A l \in ofNone : Good(Consent!Invalidate(l)) /\ Consent!Invalidate(l).line = l
  BY <1>2 DEF Consent!Invalidate
<1>5. \A l \in ofSome : Good(OfSubject(l)) /\ OfSubject(l).line = l
  BY <1>2 DEF Consent!Invalidate, Consent!Renew, Consent!Save
<1>6. ofNone \cap ofSome = {} /\ Stale(book) \cup Consent!Covered(book) = ofNone \cup ofSome
  BY <1>2
<1> HIDE DEF Good, OfSubject, ofNone, ofSome
<1>7. /\ gone \in Seq(ofNone) /\ order \in Seq(ofSome)
      /\ \A i, j \in 1..Len(gone) : i # j => gone[i] # gone[j]
      /\ \A i, j \in 1..Len(order) : i # j => order[i] # order[j]
      /\ \A l \in ofNone : \E i \in 1..Len(gone) : gone[i] = l
      /\ \A l \in ofSome : \E i \in 1..Len(order) : order[i] = l
  BY <1>3, InSomeOrder
<1> HIDE DEF gone, order
<1> DEFINE m == Len(gone)
           n == Len(order)
<1>8. /\ m \in Nat /\ n \in Nat /\ DOMAIN gone = 1..m /\ DOMAIN order = 1..n
      /\ \A i \in 1..m : gone[i] \in ofNone
      /\ \A i \in 1..n : order[i] \in ofSome
  BY <1>7
<1>9. /\ Len(first) = m /\ \A i \in 1..m : first[i] = Consent!Invalidate(gone[i])
      /\ Len(second) = n /\ \A i \in 1..n : second[i] = OfSubject(order[i])
  BY <1>8
<1> HIDE DEF first, second, m, n
<1> DEFINE todo == first \o second
<1>10. /\ Len(todo) = m + n
       /\ \A i \in 1..m : todo[i] = first[i]
       /\ \A i \in m + 1 .. m + n : todo[i] = second[i - m]
  <2> DEFINE both == {Consent!Invalidate(l) : l \in ofNone} \cup {OfSubject(l) : l \in ofSome}
  <2>1. first \in Seq(both) /\ second \in Seq(both)
    <3>1. \A i \in 1..m : Consent!Invalidate(gone[i]) \in both
      BY <1>8
    <3>2. \A i \in 1..n : OfSubject(order[i]) \in both
      BY <1>8
    <3> HIDE DEF both
    <3> QED BY <1>8, <3>1, <3>2 DEF first, second
  <2> HIDE DEF both
  <2>2. Len(first) = m /\ Len(second) = n
    BY <1>9
  <2> QED BY <2>1, <2>2, Joined
<1> HIDE DEF todo
<1>11. /\ \A i \in 1..m : Good(todo[i]) /\ todo[i].line = gone[i]
       /\ \A i \in m + 1 .. m + n :
            i - m \in 1..n /\ Good(todo[i]) /\ todo[i].line = order[i - m]
  BY <1>4, <1>5, <1>8, <1>9, <1>10
<1>12. \A i, j \in 1..Len(todo) : i # j => todo[i].line # todo[j].line
  <2> SUFFICES ASSUME NEW i \in 1..m + n, NEW j \in 1..m + n, i < j
               PROVE  todo[i].line # todo[j].line
    BY <1>8, <1>10
  <2>1. CASE j <= m
    <3>1. i \in 1..m /\ j \in 1..m
      BY <1>8, <2>1
    <3>2. gone[i] # gone[j]
      BY <1>7, <3>1 DEF m
    <3> QED BY <1>11, <3>1, <3>2
  <2>2. CASE i > m
    <3>1. i \in m + 1 .. m + n /\ j \in m + 1 .. m + n /\ i - m # j - m
      BY <1>8, <2>2
    <3>2. order[i - m] # order[j - m]
      <4>1. i - m \in 1..n /\ j - m \in 1..n
        BY <1>11, <3>1
      <4> QED BY <1>7, <3>1, <4>1 DEF n
    <3> QED BY <1>11, <3>1, <3>2
  <2>3. CASE i <= m /\ j > m
    <3>1. i \in 1..m /\ j \in m + 1 .. m + n
      BY <1>8, <2>3
    <3> QED BY <1>6, <1>8, <1>11, <3>1
  <2> QED BY <1>8, <2>1, <2>2, <2>3
<1>13. \A i \in 1..Len(todo) : Good(todo[i])
  BY <1>8, <1>10, <1>11
<1>14. \A l \in ofNone \cup ofSome : \E i \in 1..Len(todo) : todo[i].line = l
  <2> TAKE l \in ofNone \cup ofSome
  <2>1. CASE l \in ofNone
    <3>1. PICK i \in 1..m : gone[i] = l
      BY <1>7, <2>1 DEF m
    <3> QED BY <1>8, <1>10, <1>11, <3>1
  <2>2. CASE l \in ofSome
    <3>1. PICK i \in 1..n : order[i] = l
      BY <1>7, <2>2 DEF n
    <3>2. m + i \in m + 1 .. m + n /\ (m + i) - m = i
      BY <1>8, <3>1
    <3>3. todo[m + i].line = l
      BY <1>11, <3>1, <3>2
    <3> QED BY <1>8, <1>10, <3>2, <3>3
  <2> QED BY <2>1, <2>2
<1> QED BY <1>1, <1>6, <1>12, <1>13, <1>14 DEF Tasks, todo, Good

(* With no task left, there is none for another reconciliation.            *)
LEMMA NothingLeft ==
  ASSUME ConsentAssumption, NEW book, Tasks(<< >>, book)
  PROVE  Consent!Reconciliation(book) = << >> /\ Grantable(book) \subseteq Consent!Live(book)
<1>1. Stale(book) = {} /\ Consent!Covered(book) = {}
  BY DEF Tasks
<1>2. Consent!SetToSeq({}) = << >>
  <2>1. Consent!SetToSeq({}) \in Seq({})
    BY FS_EmptySet, InSomeOrder
  <2> QED BY <2>1
<1> DEFINE gone == Consent!SetToSeq(Stale(book) \ Consent!Subjects(book))
           order == Consent!SetToSeq((Stale(book) \cap Consent!Subjects(book)) \cup Consent!Covered(book))
           OfSubject(l) ==
             IF l \notin Consent!Covered(book) THEN Consent!Invalidate(l)
             ELSE IF l \in Stale(book) THEN Consent!Renew(l, book[l]) ELSE Consent!Save(l, book[l])
<1>3. Consent!Reconciliation(book) =
        [i \in DOMAIN gone |-> Consent!Invalidate(gone[i])] \o [i \in DOMAIN order |-> OfSubject(order[i])]
  BY DEF Consent!Reconciliation, Stale
<1>4. Consent!Reconciliation(book) = << >>
  <2>1. gone = << >> /\ order = << >>
    <3>1. /\ Stale(book) \ Consent!Subjects(book) = {}
          /\ (Stale(book) \cap Consent!Subjects(book)) \cup Consent!Covered(book) = {}
      BY <1>1
    <3> QED BY <1>2, <3>1
  <2> HIDE DEF gone, order, OfSubject
  <2> QED BY <1>3, <2>1
<1> QED BY <1>1, <1>4 DEF Grantable, Consent!Covered

LEMMA NothingLeftNext ==
  ASSUME ConsentAssumption, NEW book
  PROVE  (Tasks(<< >>, book) =>
            Consent!Reconciliation(book) = << >> /\ Grantable(book) \subseteq Consent!Live(book))'
<1>1. Tasks(<< >>,
   book) => Consent!Reconciliation(book) = << >> /\ Grantable(book) \subseteq Consent!Live(book)
  BY NothingLeft
<1> QED BY <1>1, PTL

(* One transaction of a reconciliation does one task, or the first half of *)
(* one, and leaves every other line as it was.                             *)
LEMMA TaskDone ==
  ASSUME ConsentAssumption, ConsentInv, NEW c \in Clerks, Consent!Write(c), NEW book \in Scripts,
         NEW todo \in Seq(WriteRecords), todo # << >>, todo = cClerk[c].todo, Tasks(todo, book),
         NEW rest, rest = Consent!Rest(c)
  PROVE  Tasks(rest, book)' /\ Grantable(book) \subseteq Grantable(book)'
<1> DEFINE w == todo[1]
           l == w.line
           n == Len(todo)
<1>1. n \in Nat /\ 1 \in 1..n /\ Head(todo) = w /\ Consent!NextWrite(c) = w
  BY DEF Consent!NextWrite
<1>2. /\ \/ w.op = "invalidate" /\ l \in Lines \ Grantable(book)
         \/ w.op \in {"save", "renew"} /\ l \in Consent!Subjects(book) /\ w.reading = book[l]
      /\ l \in Lines
  BY <1>1 DEF Tasks, Consent!Subjects
<1>3. /\ cApproved' = [cApproved EXCEPT ![l] = IF w.op = "save" THEN book[l] ELSE NoReading]
      /\ cExcluded' = IF w.op = "save" THEN cExcluded \ {l} ELSE cExcluded
      /\ cGrant' = cGrant
  <2>1. CASE w.op = "save"
    BY <1>1, <1>2, <2>1 DEF Consent!Write, Consent!StoreApproval
  <2>2. CASE w.op \in {"invalidate", "renew"}
    BY <1>1, <1>2, <2>2 DEF Consent!Write, Consent!StoreRevocation
  <2> QED BY <1>2, <2>1, <2>2
<1>4. cApproved \in [Lines -> Readings \cup {NoReading}] /\ (l \in Consent!Subjects(book) => book[l] \in Readings)
  BY DEF ConsentInv, CatalogOK, Grants, Consent!Subjects
<1> HIDE DEF w, l, n
<1>5. ASSUME NEW k \in Lines \ {l}
      PROVE  /\ k \in Stale(book)' <=> k \in Stale(book)
             /\ k \in Grantable(book)' <=> k \in Grantable(book)
             /\ k \in Consent!Covered(book)' <=> k \in Consent!Covered(book)
  <2>1. cApproved'[k] = cApproved[k] /\ (k \in cExcluded' <=> k \in cExcluded)
    BY <1>3, <1>4
  <2>2. k \in Consent!Live(book)' <=> k \in Consent!Live(book)
    BY <2>1 DEF Consent!Live, Consent!Subjects, Consent!StillDescribes
  <2> QED BY <1>3, <2>1, <2>2 DEF Stale, Grantable, Consent!Covered, Consent!Subjects,
                                  Consent!StillDescribes
<1>6. Grantable(book) \subseteq Grantable(book)'
  BY <1>3 DEF Grantable, Consent!Subjects, Consent!StillDescribes
<1>7. \A i, j \in 1..n : i # j => todo[i].line # todo[j].line
  BY DEF Tasks, n
<1>8. \A i \in 1..n :
        /\ todo[i].line \in Lines
        /\ \/ todo[i].op = "invalidate" /\ todo[i].line \notin Grantable(book)
           \/ /\ todo[i].op \in {"save", "renew"} /\ todo[i].line \in Consent!Subjects(book)
              /\ todo[i].reading = book[todo[i].line]
  BY DEF Tasks, n, Consent!Subjects
<1>9. \A k \in Stale(book) \cup Consent!Covered(book) : \E i \in 1..n : todo[i].line = k
  BY DEF Tasks, n
<1>10. \A i \in 2..n : todo[i].line \in Lines \ {l}
  BY <1>1, <1>7, <1>8 DEF l, w
<1>11. Consent!Subjects(book)' = Consent!Subjects(book) /\ Stale(book)' \cup Consent!Covered(book)' \subseteq Lines
  BY DEF Consent!Subjects, Stale, Consent!Covered
<1>12. \A i \in 2..n :
         /\ todo[i].line \in Lines \ {l}
         /\ \/ todo[i].op = "invalidate" /\ todo[i].line \notin Grantable(book)'
            \/ /\ todo[i].op \in {"save", "renew"} /\ todo[i].line \in Consent!Subjects(book)
               /\ todo[i].reading = book[todo[i].line]
  BY <1>1, <1>5, <1>8, <1>10
<1>13. \A k \in (Stale(book)' \cup Consent!Covered(book)') \ {l} : \E i \in 2..n : todo[i].line = k
  <2> TAKE k \in (Stale(book)' \cup Consent!Covered(book)') \ {l}
  <2>1. k \in Stale(book) \cup Consent!Covered(book)
    BY <1>5, <1>11
  <2>2. PICK i \in 1..n : todo[i].line = k
    BY <1>9, <2>1
  <2>3. i # 1
    BY <2>2 DEF l, w
  <2> QED BY <1>1, <2>2, <2>3
<1>14. CASE w.op \in {"invalidate", "save"}
  <2>1. /\ Len(rest) = n - 1 /\ \A i \in 1..n - 1 : rest[i] = todo[i + 1] /\ i + 1 \in 2..n
    <3>1. rest = << >> \o Tail(todo)
      BY <1>1, <1>14 DEF Consent!Rest
    <3>2. rest = Tail(todo)
      BY <3>1
    <3> QED BY <1>1, <3>2 DEF n
  <2>2. l \notin Stale(book)' \cup Consent!Covered(book)'
    <3>1. CASE w.op = "save"
      <4>1. cApproved'[l] = book[l] /\ l \in Consent!Subjects(book) /\ book[l] # NoReading
        BY <1>2, <1>3, <1>4, <3>1 DEF ConsentAssumption
      <4>2. l \in Consent!Live(book)'
        BY <1>11, <4>1 DEF Consent!Live, Consent!StillDescribes
      <4> QED BY <4>2 DEF Stale, Consent!Covered
    <3>2. CASE w.op = "invalidate"
      <4>1. cApproved'[l] = NoReading /\ l \notin Grantable(book)
        BY <1>2, <1>3, <1>4, <3>2
      <4>2. l \notin Grantable(book)'
        BY <1>3, <3>2, <4>1 DEF Grantable, Consent!Subjects, Consent!StillDescribes
      <4> QED BY <4>1, <4>2 DEF Stale, Consent!Covered, Grantable
    <3> QED BY <1>14, <3>1, <3>2
  <2>3. \A i, j \in 1..Len(rest) : i # j => rest[i].line # rest[j].line
    <3> TAKE i, j \in 1..Len(rest)
    <3>1. /\ i + 1 \in 1..n /\ j + 1 \in 1..n /\ (i # j => i + 1 # j + 1)
          /\ rest[i] = todo[i + 1] /\ rest[j] = todo[j + 1]
      BY <1>1, <2>1
    <3> QED BY <1>7, <3>1
  <2>4. \A i \in 1..Len(rest) :
          \/ rest[i].op = "invalidate" /\ rest[i].line \in Lines \ Grantable(book)'
          \/ /\ rest[i].op \in {"save", "renew"} /\ rest[i].line \in Consent!Subjects(book)
             /\ rest[i].reading = book[rest[i].line]
    BY <1>12, <2>1
  <2>5. \A k \in Stale(book)' \cup Consent!Covered(book)' : \E i \in 1..Len(rest) : rest[i].line = k
    <3> TAKE k \in Stale(book)' \cup Consent!Covered(book)'
    <3>1. PICK i \in 2..n : todo[i].line = k
      BY <1>13, <2>2
    <3>2. i - 1 \in 1..n - 1 /\ (i - 1) + 1 = i
      BY <1>1, <3>1
    <3> QED BY <2>1, <3>1, <3>2
  <2> QED BY <1>6, <1>11, <2>3, <2>4, <2>5 DEF Tasks
<1>15. CASE w.op = "renew"
  <2>1. /\ Len(rest) = n /\ rest[1] = Consent!Save(l, book[l]) /\ \A i \in 2..n : rest[i] = todo[i]
    <3>1. rest = <<Consent!Save(l, book[l])>> \o Tail(todo)
      BY <1>1, <1>2, <1>15 DEF Consent!Rest, w, l
    <3>2. Len(Tail(todo)) = n - 1 /\ \A i \in 1..n - 1 : Tail(todo)[i] = todo[i + 1]
      BY <1>1 DEF n
    <3>3. Tail(todo) \in Seq(WriteRecords)
      OBVIOUS
    <3> DEFINE tail == Tail(todo)
    <3> HIDE DEF tail
    <3>4. Len(<<Consent!Save(l, book[l])>> \o tail) = 1 + Len(tail)
          /\ (<<Consent!Save(l, book[l])>> \o tail)[1] = Consent!Save(l, book[l])
          /\ \A i \in 2..Len(tail) + 1 : (<<Consent!Save(l, book[l])>> \o tail)[i] = tail[i - 1]
      BY <3>3 DEF tail
    <3>5. \A i \in 2..n : i - 1 \in 1..n - 1 /\ (i - 1) + 1 = i
      BY <1>1
    <3> QED BY SMTT(30), <1>1, <3>1, <3>2, <3>4, <3>5 DEF tail
  <2>2. \A i \in 1..n : rest[i].line = todo[i].line
    BY <1>1, <2>1 DEF l, w, Consent!Save
  <2>3. \A i, j \in 1..Len(rest) : i # j => rest[i].line # rest[j].line
    BY <1>7, <2>1, <2>2
  <2>4. \A i \in 1..Len(rest) :
          \/ rest[i].op = "invalidate" /\ rest[i].line \in Lines \ Grantable(book)'
          \/ /\ rest[i].op \in {"save", "renew"} /\ rest[i].line \in Consent!Subjects(book)
             /\ rest[i].reading = book[rest[i].line]
    <3> TAKE i \in 1..Len(rest)
    <3>1. CASE i = 1
      BY <1>2, <1>15, <2>1, <3>1 DEF Consent!Save
    <3>2. CASE i \in 2..n
      BY <1>12, <2>1, <3>2
    <3> QED BY <1>1, <2>1, <3>1, <3>2
  <2>5. \A k \in Stale(book)' \cup Consent!Covered(book)' : \E i \in 1..Len(rest) : rest[i].line = k
    <3> TAKE k \in Stale(book)' \cup Consent!Covered(book)'
    <3>1. CASE k = l
      BY <1>1, <2>1, <2>2, <3>1 DEF l, w
    <3>2. CASE k # l
      <4>1. PICK i \in 2..n : todo[i].line = k
        BY <1>13, <3>2
      <4> QED BY <1>1, <2>1, <2>2, <4>1
    <3> QED BY <3>1, <3>2
  <2> QED BY <1>6, <1>11, <2>3, <2>4, <2>5 DEF Tasks
<1> QED BY <1>2, <1>14, <1>15

(* What is left after one transaction is still the plan, or the rest of it. *)
LEMMA PlannedRest ==
  ASSUME ConsentAssumption, ConsentInv, NEW c \in Clerks, Consent!Write(c), Planned(c),
         NEW book, book = cClerk[c].book, NEW lines, lines = Chosen(c), NEW rest, rest = Consent!Rest(c)
  PROVE  (rest = <<Consent!Reconcile>> \/ Tasks(rest, book)') /\ lines \subseteq Grantable(book)'
<1>1. /\ cClerk[c].todo \in Seq(WriteRecords) /\ cClerk[c].todo # << >> /\ book \in Scripts
      /\ Consent!NextWrite(c) = Head(cClerk[c].todo) /\ Consent!NextWrite(c).op # "reconcile"
  BY DEF ConsentInv, ClerksOK, ClerkOK, ClerkRecords, Consent!Write, Consent!At, Consent!NextWrite
<1>2. CASE \E given \in SUBSET (Consent!Subjects(book) \ cExcluded) :
             cClerk[c].todo = <<Consent!Grant(book, given),
                Consent!Reconcile>> /\ Chosen(c) \subseteq given
  <2>1. PICK given \in SUBSET (Consent!Subjects(book) \ cExcluded) :
          cClerk[c].todo = <<Consent!Grant(book, given),
             Consent!Reconcile>> /\ Chosen(c) \subseteq given
    BY <1>2
  <2>2. Consent!NextWrite(c) = Consent!Grant(book,
     given) /\ Tail(cClerk[c].todo) = <<Consent!Reconcile>>
    BY <1>1, <2>1
  <2>3. Consent!NextWrite(c).op = "grant"
        /\ Consent!NextWrite(c).reading = [l \in Lines |-> IF l \in given THEN book[l] ELSE NoReading]
    BY <2>2 DEF Consent!Grant
  <2>4. cGrant' = Consent!NextWrite(c).reading /\ cExcluded' = cExcluded
    BY <2>3 DEF Consent!Write, Consent!StoreGrant
  <2>5. rest = <<Consent!Reconcile>>
    <3>1. rest = << >> \o <<Consent!Reconcile>>
      BY <2>2, <2>3 DEF Consent!Rest
    <3> QED BY <3>1
  <2>6. given \subseteq Grantable(book)'
    BY <1>1, <2>3, <2>4 DEF Grantable, Consent!Subjects, Consent!StillDescribes, ConsentAssumption
  <2> QED BY <2>1, <2>5, <2>6
<1>3. CASE cClerk[c].todo = <<Consent!Reconcile>>
  BY <1>1, <1>3 DEF Consent!Reconcile
<1>4. CASE Tasks(cClerk[c].todo, book) /\ Chosen(c) \subseteq Grantable(book)
  <2>1. PICK todo : todo = cClerk[c].todo
    OBVIOUS
  <2>2. Tasks(rest, book)' /\ Grantable(book) \subseteq Grantable(book)'
    BY <1>1, <1>4, <2>1, TaskDone
  <2> QED BY <1>4, <2>2
<1> QED BY <1>2, <1>3, <1>4 DEF Planned

(* Whoever comes to read the catalog has its lines granted.                *)
LEMMA PlannedRead ==
  ASSUME NEW c \in Clerks, Consent!ReadCatalog(c), Planned(c), ConsentInv
  PROVE  Chosen(c) \subseteq Grantable(cClerk[c].book)
<1>1. /\ cClerk[c].todo \in Seq(WriteRecords) /\ cClerk[c].todo # << >>
      /\ Consent!NextWrite(c) = cClerk[c].todo[1] /\ Consent!NextWrite(c).op = "reconcile"
  BY DEF ConsentInv, ClerksOK, ClerkOK, ClerkRecords, Consent!ReadCatalog, Consent!At, Consent!NextWrite
<1>2. \A book, given : <<Consent!Grant(book, given), Consent!Reconcile>>[1].op = "grant"
  BY DEF Consent!Grant
<1>3. ~Tasks(cClerk[c].todo, cClerk[c].book)
  BY <1>1 DEF Tasks
<1> QED BY <1>1, <1>2, <1>3 DEF Planned

(* Where a call goes on, it has these writes before it.                    *)
LEMMA GoesTo ==
  ASSUME ClerksOK, NEW c \in Clerks, NEW todo, Consent!Goes(c, todo)
  PROVE  /\ \A d \in Clerks \ {c} : cClerk'[d] = cClerk[d]
         /\ todo = << >> => cClerk'[c] = Consent!Idle
         /\ todo # << >> => /\ cClerk'[c].pc = "writing" /\ cClerk'[c].todo = todo
                            /\ cClerk'[c].act = cClerk[c].act /\ cClerk'[c].lines = cClerk[c].lines
                            /\ cClerk'[c].book = cClerk[c].book
<1>1. CASE todo = << >>
  BY <1>1 DEF Consent!Goes, Consent!Leaves, ClerksOK
<1>2. CASE todo # << >>
  BY <1>2 DEF Consent!Goes, ClerksOK, ClerkRecords
<1> QED BY <1>1, <1>2

(* A plan stands as long as the catalog does.                              *)
LEMMA PlanStands ==
  ASSUME NEW c \in Clerks, Planned(c), UNCHANGED <<cClerk[c], Consent!catalog>>
  PROVE  Planned(c)'
<1>1. UNCHANGED <<cClerk[c], cApproved, cExcluded, cGrant>>
  BY DEF Consent!catalog
<1>2. \A book : /\ Consent!Live(book)' = Consent!Live(book) /\ Consent!Subjects(book)' = Consent!Subjects(book)
                /\ Grantable(book)' = Grantable(book)
  BY <1>1 DEF Consent!Live, Consent!Subjects, Grantable, Consent!StillDescribes
<1>3. \A book : Stale(book)' = Stale(book) /\ Consent!Covered(book)' = Consent!Covered(book)
  BY <1>1, <1>2 DEF Stale, Consent!Covered
<1>4. PICK book, todo : book = cClerk[c].book /\ todo = cClerk[c].todo
  OBVIOUS
<1>5. Tasks(todo, book)' <=> Tasks(todo, book)
  BY <1>2, <1>3 DEF Tasks
<1>6. Tasks(cClerk[c].todo, cClerk[c].book)' <=> Tasks(cClerk[c].todo, cClerk[c].book)
  <2>1. Tasks(cClerk[c].todo, cClerk[c].book)' <=> Tasks(todo, book)'
    BY <1>1, <1>4 DEF Tasks, Grantable, Stale, Consent!Covered, Consent!Live, Consent!Subjects
  <2> QED BY <1>4, <1>5, <2>1
<1>7. Grantable(cClerk[c].book)' = Grantable(cClerk[c].book) /\ Chosen(c)' = Chosen(c)
      /\ Consent!Subjects(cClerk[c].book)' = Consent!Subjects(cClerk[c].book)
  BY <1>1 DEF Grantable, Consent!Subjects, Consent!StillDescribes, Chosen
<1> QED BY <1>1, <1>6, <1>7 DEF Planned, Consent!Grant

(* Nobody joins or leaves the processes.                                   *)
LEMMA SameProcesses ==
  ASSUME ConsentInv, ConsentInv', [Consent!Next]_(Consent!vars)
  PROVE  Consent!OneProcess' <=> Consent!OneProcess
<1>1. cHostOf' = cHostOf
  <2>1. ASSUME Consent!Redirect PROVE UNCHANGED cHostOf
    BY <2>1 DEF Consent!Redirect
  <2>2. ASSUME NEW c \in Clerks, Consent!Ask(c) PROVE UNCHANGED cHostOf
    BY <2>2 DEF Consent!Ask, Consent!AskOne, Consent!AskSelected, Consent!AskAll,
                Consent!AskWithdrawal, Consent!AskBook, Consent!Asks
  <2>3. ASSUME NEW c \in Clerks, Consent!Call(c) PROVE UNCHANGED cHostOf
    BY <2>3 DEF Consent!Call, Consent!Load, Consent!Enter, Consent!Write, Consent!ReadCatalog
  <2>4. ASSUME NEW c \in Clerks, Consent!WriteLost(c) PROVE UNCHANGED cHostOf
    BY <2>4 DEF Consent!WriteLost
  <2> QED BY <2>1, <2>2, <2>3, <2>4 DEF Consent!Next, Consent!vars
<1>2. DOMAIN cSection' = DOMAIN cSection
  BY <1>1 DEF ConsentInv, HostsOK
<1> QED BY <1>2 DEF Consent!OneProcess

LEMMA PlansNext ==
  ASSUME ConsentAssumption, ConsentInv, ConsentInv', PlansOK, [Consent!Next]_(Consent!vars)
  PROVE  PlansOK'
<1> SUFFICES ASSUME Consent!OneProcess, NEW e \in Clerks, ForTheBook(e)'
             PROVE  Planned(e)'
  BY SameProcesses DEF PlansOK
<1>1. ASSUME cClerk'[e] = cClerk[e], UNCHANGED Consent!catalog
      PROVE  Planned(e)'
  <2>1. Planned(e)
    BY <1>1 DEF PlansOK, ForTheBook
  <2> QED BY <1>1, <2>1, PlanStands
<1>2. CASE Consent!Redirect \/ UNCHANGED Consent!vars
  BY <1>1, <1>2 DEF Consent!Redirect, Consent!vars
<1>3. ASSUME NEW c \in Clerks, Consent!Ask(c) \/ Consent!Call(c) \/ Consent!WriteLost(c)
      PROVE  Planned(e)'
  <2>1. CASE Consent!Ask(c)
    <3>1. PICK act, lines : Consent!Asks(c, act, lines)
      BY <2>1 DEF Consent!Ask, Consent!AskOne, Consent!AskSelected, Consent!AskAll,
                  Consent!AskWithdrawal, Consent!AskBook
    <3>2. UNCHANGED Consent!catalog /\ cClerk'[c].pc = "asked" /\ \A d \in Clerks \ {c} : cClerk'[d] = cClerk[d]
      BY <3>1 DEF Consent!Asks, ConsentInv, ClerksOK, ClerkRecords
    <3> QED BY <1>1, <3>2 DEF ForTheBook
  <2>2. CASE Consent!Load(c)
    <3>1. UNCHANGED Consent!catalog /\ cClerk'[c].pc = "waiting" /\ \A d \in Clerks \ {c} : cClerk'[d] = cClerk[d]
      BY <2>2 DEF Consent!Load, ConsentInv, ClerksOK, ClerkRecords
    <3> QED BY <1>1, <3>1 DEF ForTheBook
  <2>3. CASE Consent!WriteLost(c) \/ (Consent!Enter(c) /\ Consent!Refused(c))
    <3>1. UNCHANGED Consent!catalog /\ Consent!Goes(c, << >>)
      BY <2>3 DEF Consent!WriteLost, Consent!Enter, Consent!Goes
    <3>2. cClerk'[c].pc = "idle" /\ \A d \in Clerks \ {c} : cClerk'[d] = cClerk[d]
      BY <3>1, GoesTo DEF ConsentInv, Consent!Idle
    <3> QED BY <1>1, <3>1, <3>2 DEF ForTheBook
  <2>4. CASE Consent!Enter(c) /\ ~Consent!Refused(c)
    <3>1. UNCHANGED Consent!catalog /\ Consent!Goes(c, Consent!Writes(c)) /\ Consent!Writes(c) # << >>
      BY <2>4, WritesAreDecided DEF Consent!Enter
    <3> DEFINE me == cClerk[c]
    <3>2. /\ \A d \in Clerks \ {c} : cClerk'[d] = cClerk[d]
          /\ cClerk'[c].pc = "writing" /\ cClerk'[c].todo = Consent!Writes(c) /\ cClerk'[c].act = me.act
          /\ cClerk'[c].lines = me.lines /\ cClerk'[c].book = me.book
      <4>1. PICK todo : todo = Consent!Writes(c)
        OBVIOUS
      <4> QED BY <3>1, <4>1, GoesTo DEF ConsentInv
    <3>3. CASE e = c
      <4>1. me.act \in {"select", "all", "reconcile"}
        BY <3>2, <3>3 DEF ForTheBook
      <4>2. PICK given \in SUBSET (Consent!Subjects(me.book) \ cExcluded) :
              /\ Consent!Writes(c) = <<Consent!Grant(me.book, given), Consent!Reconcile>>
                   \/ (Consent!Writes(c) = <<Consent!Reconcile>> /\ given = {})
              /\ Chosen(c) \subseteq given
        <5>1. CASE me.act = "reconcile"
          <6>1. Consent!Writes(c) = <<Consent!Reconcile>> /\ Chosen(c) \subseteq {}
            BY <5>1 DEF Consent!Writes, Chosen
          <6> QED BY <6>1
        <5>2. CASE me.act \in {"select", "all"}
          <6>1. Consent!GrantedLines(c) \subseteq Consent!Subjects(me.book) \ cExcluded
                /\ Chosen(c) \subseteq Consent!GrantedLines(c)
            BY <2>4, <5>2 DEF Consent!GrantedLines, Consent!Refused, Consent!Offerable, Chosen
          <6>2. Consent!Writes(c) = IF Consent!GrantedLines(c) = {} THEN <<Consent!Reconcile>>
                            ELSE <<Consent!Grant(me.book, Consent!GrantedLines(c)), Consent!Reconcile>>
            BY <5>2 DEF Consent!Writes
          <6> QED BY <6>1, <6>2
        <5> QED BY <4>1, <5>1, <5>2
      <4>3. Chosen(c)' = Chosen(c) /\ Consent!Subjects(me.book)' = Consent!Subjects(me.book) /\ cExcluded' = cExcluded
            /\ Consent!Subjects(cClerk[c].book)' = Consent!Subjects(me.book)
        BY <3>1, <3>2 DEF Chosen, Consent!Subjects, Consent!catalog
      <4>4. CASE Consent!Writes(c) = <<Consent!Grant(me.book, given), Consent!Reconcile>>
        <5>1. cClerk'[c].todo = <<Consent!Grant(cClerk'[c].book, given), Consent!Reconcile>>
          BY <3>2, <4>4
        <5> QED BY <3>3, <4>2, <4>3, <5>1 DEF Planned, Consent!Grant
      <4>5. CASE Consent!Writes(c) = <<Consent!Reconcile>> /\ given = {}
        <5>1. cClerk'[c].todo = <<Consent!Reconcile>> /\ Chosen(c)' = {}
          BY <3>2, <4>2, <4>3, <4>5
        <5> QED BY <3>3, <5>1 DEF Planned, Consent!Reconcile
      <4> QED BY <4>2, <4>4, <4>5
    <3>4. CASE e # c
      BY <1>1, <3>1, <3>2, <3>4
    <3> QED BY <3>3, <3>4
  <2>5. CASE Consent!Write(c)
    <3>1. PICK book, lines, rest : book = cClerk[c].book /\ lines = Chosen(c) /\ rest = Consent!Rest(c)
      OBVIOUS
    <3>2. Consent!Goes(c, rest) /\ cClerk[c].pc = "writing" /\ Consent!Holds(c)
      BY <2>5, <3>1 DEF Consent!Write, Consent!At, ConsentInv, ClerksOK, ClerkOK
    <3>3. CASE e = c
      <4>1. rest # << >> /\ cClerk'[c].todo = rest /\ cClerk'[c].act = cClerk[c].act
            /\ cClerk'[c].lines = cClerk[c].lines /\ cClerk'[c].book = book
        BY <3>1, <3>2, <3>3, GoesTo DEF ConsentInv, ForTheBook, Consent!Idle
      <4>2. Planned(c)
        BY <3>2, <3>3, <4>1 DEF PlansOK, ForTheBook
      <4>3. (rest = <<Consent!Reconcile>> \/ Tasks(rest, book)') /\ lines \subseteq Grantable(book)'
        BY <2>5, <3>1, <4>2, PlannedRest
      <4>4. Chosen(c)' = lines /\ Grantable(cClerk[c].book)' = Grantable(book)'
        BY <3>1, <4>1 DEF Chosen, Grantable, Consent!Subjects
      <4>5. CASE rest = <<Consent!Reconcile>>
        <5>1. cClerk'[c].todo = <<Consent!Reconcile>>'
          BY <4>1, <4>5 DEF Consent!Reconcile
        <5> QED BY <3>3, <4>3, <4>4, <5>1 DEF Planned
      <4>6. CASE Tasks(rest, book)'
        <5>1. Tasks(cClerk[c].todo, cClerk[c].book)'
          BY <4>1, <4>6 DEF Tasks, Grantable, Stale, Consent!Covered, Consent!Live, Consent!Subjects
        <5> QED BY <3>3, <4>3, <4>4, <5>1 DEF Planned
      <4> QED BY <4>3, <4>5, <4>6
    <3>4. CASE e # c
      <4>1. cClerk'[e] = cClerk[e]
        BY <3>2, <3>4, GoesTo DEF ConsentInv
      <4>2. Consent!Holds(e)
        BY <4>1 DEF ForTheBook, ConsentInv, ClerksOK, ClerkOK
      <4> QED BY <3>2, <3>4, <4>2, OneWriter DEF ConsentInv
    <3> QED BY <3>3, <3>4
  <2>6. CASE Consent!ReadCatalog(c)
    <3>1. PICK book, todo : book = cClerk[c].book /\ todo = Consent!Reconciliation(book)
      OBVIOUS
    <3>2. UNCHANGED Consent!catalog /\ Consent!Goes(c, todo) /\ cClerk[c].pc = "writing"
      BY <2>6, <3>1 DEF Consent!ReadCatalog, Consent!At
    <3>3. CASE e = c
      <4>1. todo # << >> /\ cClerk'[c].todo = todo /\ cClerk'[c].act = cClerk[c].act
            /\ cClerk'[c].lines = cClerk[c].lines /\ cClerk'[c].book = book
        BY <3>1, <3>2, <3>3, GoesTo DEF ConsentInv, ForTheBook, Consent!Idle
      <4>2. Planned(c)
        BY <3>2, <3>3, <4>1 DEF PlansOK, ForTheBook
      <4>3. Chosen(c) \subseteq Grantable(book)
        BY <2>6, <3>1, <4>2, PlannedRead
      <4>4. Tasks(todo, book)
        BY <3>1, ReconciliationPlans
      <4>5. /\ Consent!Live(book)' = Consent!Live(book) /\ Consent!Subjects(book)' = Consent!Subjects(book)
            /\ Grantable(book)' = Grantable(book)
        BY <3>2 DEF Consent!catalog, Consent!Live, Consent!Subjects, Grantable, Consent!StillDescribes
      <4>6. Stale(book)' = Stale(book) /\ Consent!Covered(book)' = Consent!Covered(book)
        BY <3>2, <4>5 DEF Consent!catalog, Stale, Consent!Covered
      <4>7. Tasks(todo, book)'
        BY <4>4, <4>5, <4>6 DEF Tasks
      <4>8. Tasks(cClerk[c].todo, cClerk[c].book)'
        BY <4>1, <4>7 DEF Tasks, Grantable, Stale, Consent!Covered, Consent!Live, Consent!Subjects
      <4>9. Chosen(c)' = Chosen(c) /\ Grantable(cClerk[c].book)' = Grantable(book)'
        BY <4>1 DEF Chosen, Grantable, Consent!Subjects
      <4> QED BY <3>3, <4>3, <4>5, <4>8, <4>9 DEF Planned
    <3>4. CASE e # c
      BY <1>1, <3>2, <3>4, GoesTo DEF ConsentInv
    <3> QED BY <3>3, <3>4
  <2> QED BY <1>3, <2>1, <2>2, <2>3, <2>4, <2>5, <2>6 DEF Consent!Call
<1> QED BY <1>2, <1>3 DEF Consent!Next

-----------------------------------------------------------------------------
(* The theorems                                                            *)

THEOREM ConsentInvariant ==
  ASSUME ConsentAssumption
  PROVE  Consent!Spec => []ConsentInv
<1>1. Consent!Init => ConsentInv
  BY InitConsent
<1>2. ConsentInv /\ [Consent!Next]_(Consent!vars) => ConsentInv'
  BY NextConsent
<1> QED BY <1>1, <1>2, PTL DEF Consent!Spec

(* The catalog, the script and the calls have their types.                 *)
THEOREM TypeCorrect ==
  ASSUME ConsentAssumption
  PROVE  Consent!Spec => []Consent!TypeOK
<1>1. ConsentInv => Consent!TypeOK
  BY DEF ConsentInv, BoundsOK, Scripts, CatalogOK, Grants, HostsOK, ClerksOK, ClerkRecords,
         Consent!TypeOK
<1> QED BY <1>1, ConsentInvariant, PTL

(* Whatever was directed anew meanwhile, and whatever was granted for the  *)
(* book, every record in the catalog is about a reading of the line that   *)
(* somebody decided on (reconcileUnlocked, createBookFallbackGrant).       *)
THEOREM NeverCarriedOver ==
  ASSUME ConsentAssumption
  PROVE  Consent!Spec => []Consent!NothingCarriedOver
<1>1. ConsentInv => Consent!NothingCarriedOver
  BY DEF ConsentInv, CatalogOK, Said, Consent!NothingCarriedOver
<1> QED BY <1>1, ConsentInvariant, PTL

(* No line is authorized and withdrawn at once, in any number of processes *)
(* (save and revoke of SqliteFallbackApprovalRepository).                  *)
THEOREM NeverAmbiguous ==
  ASSUME ConsentAssumption
  PROVE  Consent!Spec => []Consent!Unambiguous
<1>1. ConsentInv => Consent!Unambiguous
  BY DEF ConsentInv, CatalogOK
<1> QED BY <1>1, ConsentInvariant, PTL

(* Where one process decides, a withdrawal is taken back only by an        *)
(* approval of that very line: its section keeps a reconciliation from     *)
(* reading the catalog before a withdrawal and writing after it.           *)
THEOREM WithdrawalOutranksTheBook ==
  ASSUME ConsentAssumption
  PROVE  Consent!Spec => Consent!WithdrawalStandsInOneProcess
<1> DEFINE ByName(l) == \E c \in Clerks : cClerk'[c] # cClerk[c] /\ cClerk[c].act = "approve"
<1>1. ASSUME ConsentInv, [Consent!Next]_(Consent!vars), Consent!OneProcess,
   NEW l \in cExcluded \ cExcluded'
      PROVE  ByName(l)
  <2>1. PICK c \in Clerks : Consent!Write(c)
    <3>1. cExcluded' # cExcluded
      BY <1>1
    <3>2. ~ UNCHANGED Consent!catalog
      BY <3>1 DEF Consent!catalog
    <3>3. ~ UNCHANGED Consent!vars
      BY <3>1 DEF Consent!vars, Consent!catalog
    <3>4. ~ Consent!Redirect
      BY <3>2 DEF Consent!Redirect
    <3>5. \A c \in Clerks : ~ Consent!Ask(c)
      BY <3>2 DEF Consent!Ask, Consent!AskOne, Consent!AskSelected, Consent!AskAll,
                  Consent!AskWithdrawal, Consent!AskBook, Consent!Asks
    <3>6. \A c \in Clerks : ~ Consent!Load(c) /\ ~ Consent!Enter(c) /\ ~ Consent!ReadCatalog(c) /\ ~ Consent!WriteLost(c)
      BY <3>2 DEF Consent!Load, Consent!Enter, Consent!ReadCatalog, Consent!WriteLost
    <3> QED BY <1>1, <3>3, <3>4, <3>5, <3>6 DEF Consent!Next, Consent!Call
  <2>2. /\ ClerkOK(c) /\ cClerk[c].pc = "writing" /\ cClerk[c] \in ClerkRecords
        /\ cClerk[c].todo \in Seq(WriteRecords) /\ cClerk[c].todo # << >>
    BY <1>1, <2>1 DEF ConsentInv, ClerksOK, ClerkOK, ClerkRecords, Consent!Write, Consent!At
  <2>3. Consent!NextWrite(c).op = "save" /\ l = Consent!NextWrite(c).line
    BY <1>1, <2>1, WrittenCatalog
  <2>4. cClerk[c].todo[1] = Consent!NextWrite(c) /\ 1 \in 1..Len(cClerk[c].todo)
    BY <2>2 DEF Consent!NextWrite
  <2>5. Respects(cClerk[c].act, Consent!NextWrite(c), cExcluded)
    BY <2>2, <2>4 DEF ClerkOK
  <2>6. cClerk[c].act = "approve"
    BY <1>1, <2>3, <2>5 DEF Respects
  <2>7. Len(Consent!Rest(c)) = Len(cClerk[c].todo) - 1
    BY <2>2, <2>3 DEF Consent!Rest
  <2>8. cClerk'[c] # cClerk[c]
    <3>1. CASE Consent!Rest(c) = << >>
      <4>1. cClerk'[c] = Consent!Idle
        BY <1>1, <2>1, <3>1 DEF Consent!Write, Consent!Goes, Consent!Leaves, ConsentInv, ClerksOK
      <4> QED BY <2>2, <4>1 DEF Consent!Idle
    <3>2. CASE Consent!Rest(c) # << >>
      <4>1. cClerk'[c].todo = Consent!Rest(c)
        BY <1>1, <2>1, <2>2, <3>2 DEF Consent!Write, Consent!Goes, ConsentInv, ClerksOK, ClerkRecords
      <4> QED BY <2>2, <2>7, <4>1
    <3> QED BY <3>1, <3>2
  <2> QED BY <2>6, <2>8
<1>2. ConsentInv /\ [Consent!Next]_(Consent!vars) =>
        [Consent!OneProcess => \A l \in cExcluded \ cExcluded' :
           \E c \in Clerks : cClerk'[c] # cClerk[c] /\ cClerk[c].act = "approve"]_(Consent!vars)
  BY <1>1
<1> QED BY <1>2, ConsentInvariant, PTL DEF Consent!Spec, Consent!WithdrawalStandsInOneProcess

(* Where one process decides, a selection that was not refused is approved *)
(* whole, and what a decision for the book leaves behind gives a further   *)
(* reconciliation nothing to do (createBookFallbackGrant,                  *)
(* reconcileUnlocked).                                                     *)
THEOREM BookDecidedWhole ==
  ASSUME ConsentAssumption
  PROVE  Consent!Spec => Consent!DecidedWhole
<1>1. Consent!Init => ConsentInv /\ PlansOK
  <2>1. Consent!Init => PlansOK
    BY DEF Consent!Init, PlansOK, ForTheBook, Consent!Idle
  <2> QED BY <2>1, InitConsent
<1>2. ConsentInv /\ PlansOK /\ [Consent!Next]_(Consent!vars) => (ConsentInv /\ PlansOK)'
  BY NextConsent, PlansNext
<1>3. ASSUME ConsentInv, PlansOK, Consent!OneProcess, NEW c \in Clerks, Consent!EndsWell(c)
      PROVE  /\ cClerk[c].act = "select" =>
                  \A l \in cClerk[c].lines : cApproved'[l] = cClerk[c].book[l]
             /\ cClerk[c].act \in {"select", "all", "reconcile"} =>
                  \A book \in {cClerk[c].book} : Consent!Reconciliation(book)' = << >>
  <2> SUFFICES ASSUME cClerk[c].act \in {"select", "all", "reconcile"}, NEW book, book = cClerk[c].book
               PROVE  /\ Consent!Reconciliation(book)' = << >>
                      /\ cClerk[c].act = "select" =>
                           \A l \in cClerk[c].lines : cApproved'[l] = book[l]
    OBVIOUS
  <2>1. ForTheBook(c) /\ Planned(c)
    BY <1>3 DEF Consent!EndsWell, Consent!Write, Consent!ReadCatalog, Consent!At, PlansOK, ForTheBook
  <2>2. Tasks(<< >>, book)' /\ Chosen(c) \subseteq Grantable(book)'
    <3>1. CASE Consent!Write(c) /\ Consent!Rest(c) = << >>
      <4>1. PICK lines : lines = Chosen(c)
        OBVIOUS
      <4>2. << >> # <<Consent!Reconcile>>
        OBVIOUS
      <4> QED BY <1>3, <2>1, <3>1, <4>1, <4>2, PlannedRest
    <3>2. CASE Consent!ReadCatalog(c) /\ cClerk'[c] = Consent!Idle
      <4>1. PICK todo : todo = Consent!Reconciliation(book)
        OBVIOUS
      <4>2. Consent!Goes(c, todo) /\ UNCHANGED Consent!catalog
        BY <3>2, <4>1 DEF Consent!ReadCatalog
      <4>3. todo = << >>
        BY <1>3, <3>2, <4>2, GoesTo DEF ConsentInv, Consent!Idle
      <4>4. Tasks(<< >>, book) /\ Chosen(c) \subseteq Grantable(book)
        BY <1>3, <2>1, <3>2, <4>1, <4>3, ReconciliationPlans, PlannedRead
      <4>5. /\ Consent!Live(book)' = Consent!Live(book) /\ Consent!Subjects(book)' = Consent!Subjects(book)
            /\ Grantable(book)' = Grantable(book)
        BY <4>2 DEF Consent!catalog, Consent!Live, Consent!Subjects, Grantable, Consent!StillDescribes
      <4>6. Stale(book)' = Stale(book) /\ Consent!Covered(book)' = Consent!Covered(book)
        BY <4>2, <4>5 DEF Consent!catalog, Stale, Consent!Covered
      <4> QED BY <4>4, <4>5, <4>6 DEF Tasks
    <3> QED BY <1>3, <3>1, <3>2 DEF Consent!EndsWell
  <2>3. Consent!Reconciliation(book)' = << >> /\ Grantable(book)' \subseteq Consent!Live(book)'
    BY <2>2, NothingLeftNext
  <2>4. ASSUME cClerk[c].act = "select", NEW l \in cClerk[c].lines
        PROVE  cApproved'[l] = book[l]
    BY <2>2, <2>3, <2>4 DEF Chosen, Consent!Live, Consent!StillDescribes
  <2> QED BY <2>3, <2>4
<1>4. ConsentInv /\ PlansOK /\ [Consent!Next]_(Consent!vars) =>
        [Consent!OneProcess => \A c \in Clerks : Consent!EndsWell(c) =>
           /\ cClerk[c].act = "select" => \A l \in cClerk[c].lines : cApproved'[l] = cClerk[c].book[l]
           /\ cClerk[c].act \in {"select", "all", "reconcile"} =>
                \A book \in {cClerk[c].book} : Consent!Reconciliation(book)' = << >>]_(Consent!vars)
  BY <1>3
<1> QED BY <1>1, <1>2, <1>4, PTL DEF Consent!Spec, Consent!DecidedWhole

-----------------------------------------------------------------------------
(* Slices                                                                  *)

\* Slices as they are asked for and as they are named
Slices == Asked \cup {Pipeline!CanonicalSliceDescriptor(l) : l \in Asked}

(* The descriptor of a slice keeps the same chapters and passages, and is  *)
(* its own descriptor (canonicalSliceDescriptor).                          *)
LEMMA CanonicalWindow ==
  ASSUME NEW l
  PROVE  LET d == Pipeline!CanonicalSliceDescriptor(l)
         IN /\ Pipeline!Window(d) = Pipeline!Window(l)
            /\ Pipeline!PastTheEnd(d) = Pipeline!PastTheEnd(l)
            /\ Pipeline!CanonicalSliceDescriptor(d) = d
            /\ Pipeline!WindowedBookId(d) = Pipeline!WindowedBookId(l)
<1> DEFINE d == Pipeline!CanonicalSliceDescriptor(l)
           kept == IF Pipeline!Stated(l, "firstChapter", 1) = 1
                   THEN DOMAIN l \ {"firstChapter"} ELSE DOMAIN l
<1>1. d = [x \in kept |-> l[x]]
  BY DEF Pipeline!CanonicalSliceDescriptor, Pipeline!Restrict
<1>2. DOMAIN d = kept /\ \A x \in kept : d[x] = l[x]
  BY <1>1
<1> HIDE DEF d
<1>3. \A o : /\ Pipeline!Stated(d, "firstChapter", 1) = Pipeline!Stated(l, "firstChapter", 1)
             /\ Pipeline!Stated(d, "maxChapters", o) = Pipeline!Stated(l, "maxChapters", o)
             /\ Pipeline!Stated(d, "maxPassagesPerChapter", o) = Pipeline!Stated(l,
                "maxPassagesPerChapter", o)
  BY <1>2 DEF Pipeline!Stated
<1>4. Pipeline!Window(d) = Pipeline!Window(l) /\ Pipeline!PastTheEnd(d) = Pipeline!PastTheEnd(l)
  BY <1>3 DEF Pipeline!Window, Pipeline!PastTheEnd, Pipeline!FirstKept
<1>5. Pipeline!CanonicalSliceDescriptor(d) = d
  <2>1. Pipeline!CanonicalSliceDescriptor(d) =
          [x \in IF Pipeline!Stated(d, "firstChapter", 1) = 1
                 THEN DOMAIN d \ {"firstChapter"} ELSE DOMAIN d |-> d[x]]
    BY DEF Pipeline!CanonicalSliceDescriptor, Pipeline!Restrict
  <2>2. (IF Pipeline!Stated(d, "firstChapter", 1) = 1
         THEN DOMAIN d \ {"firstChapter"} ELSE DOMAIN d) = kept
    BY <1>2, <1>3
  <2> HIDE DEF kept
  <2> QED BY <1>1, <1>2, <2>1, <2>2
<1>6. Pipeline!WindowedBookId(d) = Pipeline!WindowedBookId(l)
  BY <1>4, <1>5 DEF Pipeline!WindowedBookId, d
<1> QED BY <1>4, <1>5, <1>6 DEF d

(* Two slices with one book ID are one window of the book                  *)
(* (windowedBookId of slice.ts).                                           *)
LEMMA OneWindow ==
  ASSUME NEW l, NEW m, Pipeline!WindowedBookId(l) = Pipeline!WindowedBookId(m)
  PROVE  Pipeline!Window(l) = Pipeline!Window(m)
<1>1. Pipeline!Window(Pipeline!Unbounded) = Pipeline!WholeBook
  <2>1. DOMAIN Pipeline!Unbounded = {}
    BY DEF Pipeline!Unbounded
  <2>2. \A name, o : Pipeline!Stated(Pipeline!Unbounded, name, o) = o
    BY <2>1 DEF Pipeline!Stated
  <2>3. Len(Shape) \in Nat /\ \A c \in 1..Len(Shape) : Shape[c] \in Nat
    BY PipelineAssumption
  <2>4. \A n \in Nat : Pipeline!Min({n, n}) = n
    BY DEF Pipeline!Min
  <2>5. Pipeline!Min({1 + Len(Shape) - 1, Len(Shape)}) = Len(Shape)
    <3>1. 1 + Len(Shape) - 1 = Len(Shape)
      BY <2>3
    <3> QED BY <2>3, <2>4, <3>1
  <2> QED BY <2>2, <2>3, <2>4, <2>5 DEF Pipeline!Window, Pipeline!WholeBook, Pipeline!FirstKept
<1>2. ASSUME NEW a, NEW b, Pipeline!Window(a) = Pipeline!WholeBook,
             Pipeline!WindowedBookId(a) = Pipeline!WindowedBookId(b)
      PROVE  Pipeline!Window(b) = Pipeline!WholeBook
  <2>1. CASE Pipeline!Window(b) # Pipeline!WholeBook
    <3>1. Pipeline!CanonicalSliceDescriptor(b) = Pipeline!Unbounded
      BY <1>2, <2>1 DEF Pipeline!WindowedBookId
    <3> QED BY <1>1, <3>1, CanonicalWindow
  <2> QED BY <2>1
<1>3. CASE Pipeline!Window(l) # Pipeline!WholeBook /\ Pipeline!Window(m) # Pipeline!WholeBook
  <2>1. Pipeline!CanonicalSliceDescriptor(l) = Pipeline!CanonicalSliceDescriptor(m)
    BY <1>3 DEF Pipeline!WindowedBookId
  <2> QED BY <2>1, CanonicalWindow
<1> QED BY <1>2, <1>3

\* The slices the commands and the web work on have books
LEMMA SliceIds ==
  ASSUME NEW l \in Slices
  PROVE  /\ Pipeline!CanonicalSliceDescriptor(l) \in Slices
         /\ ~Pipeline!PastTheEnd(l) => Pipeline!WindowedBookId(l) \in Pipeline!BookIds
<1>1. PICK a \in Asked : l = a \/ l = Pipeline!CanonicalSliceDescriptor(a)
  BY DEF Slices
<1>2. Pipeline!CanonicalSliceDescriptor(l) = Pipeline!CanonicalSliceDescriptor(a)
  BY <1>1, CanonicalWindow
<1>3. Pipeline!WindowedBookId(l) = Pipeline!WindowedBookId(a)
      /\ Pipeline!PastTheEnd(l) = Pipeline!PastTheEnd(a)
  BY <1>1, CanonicalWindow
<1> QED BY <1>2, <1>3 DEF Slices, Pipeline!BookIds

-----------------------------------------------------------------------------
(* Casts and commands: the invariant                                       *)

Identities == SUBSET (Speakers \X Profiles \X SUBSET Aliases)

Contracts == BOOLEAN \X Identities

Rows ==
  [state : {"absent", "running", "awaiting_review", "failed", "completed"},
   stage : {"none", "extracting", "directing", "rendering", "done"},
   book : Pipeline!BookIds \cup {Pipeline!Unbounded}, attached : BOOLEAN,
   command : {<<>>} \cup (Contracts \X Slices), contract : {<<>>} \cup Contracts]

Texts == {<<>>} \cup {Pipeline!Window(l) : l \in Slices}

ProfileIds == Speakers \cup {"none", "narrator", "fallback"}

DirectedBooks ==
  [text : Texts, line : Speakers \cup {"draft", "narration", "unresolved", "stranger"},
   profile : ProfileIds]

NoCast == Pipeline!NoApproval

ProcessRecords ==
  [pc : {"idle", "launched", "direct", "claim", "extracting", "directing", "confirm", "render",
         "planned", "speaking"},
   op : {"none"} \cup Pipeline!Operations, job : Pipeline!Jobs \cup {NoJob},
   limits : Slices \cup {Pipeline!Unbounded}, approval : {NoCast} \cup Drafts, row : Rows,
   script : DirectedBooks, recover : BOOLEAN]

Outputs ==
  [text : Texts, profile : ProfileIds, voice : Profiles \cup {"none"},
   book : Pipeline!BookIds \cup {Pipeline!Unbounded}, by : {"none", "web", "command"}]

PipelineTyped ==
  /\ kSigned \subseteq Drafts
  /\ kRows \in [Pipeline!Jobs -> Rows]
  /\ kBooks \in [Pipeline!BookIds -> DirectedBooks]
  /\ kOutputs \in [Pipeline!Jobs -> Outputs]
  /\ kProcess \in [Pipeline!Processes -> ProcessRecords]

\* The cast that is in force was signed, and what was signed could be
LedgerOK ==
  /\ kLedger \in kSigned \cup {NoCast}
  /\ \A d \in kSigned : Pipeline!Approvable(d.cast)

\* A row names the inputs it is bound to; the book that is attached to it is the window they ask
\* for, and a command directed it with a cast that was signed for this book, or with none
RowOK(row, books, signed) ==
  /\ row.state = "absent" => ~row.attached
  /\ row.state # "absent" => row.command # <<>> /\ row.command[1] = row.contract
  /\ row.stage = "directing" => row.attached
  /\ row.attached =>
       /\ row.book \in Pipeline!BookIds /\ row.book = Pipeline!WindowedBookId(row.command[2])
       /\ books[row.book].text = Pipeline!Window(row.command[2])
       /\ ~row.contract[1] =>
            \E d \in signed \cup {NoCast} :
              /\ d # NoCast => d.book = row.book
              /\ row.contract[2] = Pipeline!GenerationIdentity(d.cast)

Directs == {"claim", "extracting", "directing"}

Renders == {"planned", "speaking"}

CastFor(p, me) == IF p \in Webs THEN HouseCast ELSE me.approval.cast

ContractFor(p, me) == <<p \in Webs, Pipeline!GenerationIdentity(CastFor(p, me))>>

\* What a process has read is what it works for
ProcessOK(p, me, books, signed) ==
  /\ me.pc # "idle" => me.job \in Pipeline!Jobs /\ me.limits \in Slices
  /\ p \in Commands => me.approval \in signed \cup {NoCast}
  /\ me.pc \in Directs \cup Renders =>
       /\ RowOK(me.row, books, signed) /\ me.row.contract = ContractFor(p, me)
       /\ me.row.state \notin {"absent", "completed"}
  /\ me.pc \in Directs =>
       me.row.command = <<ContractFor(p, me), Pipeline!CanonicalSliceDescriptor(me.limits)>>
  /\ me.pc = "claim" => me.row.stage \in Pipeline!DirectingStages
  /\ me.pc = "directing" => me.row.attached
  /\ me.pc \in Renders =>
       /\ me.row.attached /\ Pipeline!KnowsProfile(CastFor(p, me), me.script.profile)
       /\ me.script.text = Pipeline!Window(me.row.command[2])

\* What was completed is the window its row names; a character spoke as was signed for this book
OutputOK(row, output, signed) ==
  /\ row.state = "completed" =>
       row.attached /\ output.text = Pipeline!Window(row.command[2])
  /\ output.by = "command" /\ output.profile \in Speakers =>
       \E d \in signed :
         /\ d.book = output.book
         /\ \E a \in d.cast : a.speaker = output.profile /\ a.material = output.voice

PipelineInv ==
  /\ PipelineTyped /\ LedgerOK
  /\ \A j \in Pipeline!Jobs :
       RowOK(kRows[j], kBooks, kSigned) /\ OutputOK(kRows[j], kOutputs[j], kSigned)
  /\ \A p \in Pipeline!Processes : ProcessOK(p, kProcess[p], kBooks, kSigned)

\* What a process is when it does nothing
LEMMA Emptiness ==
  /\ Pipeline!NoRow \in Rows /\ Pipeline!NoScript \in DirectedBooks
  /\ Pipeline!NoOutput \in Outputs /\ Pipeline!Idle \in ProcessRecords
  /\ NoCast.cast = {} /\ ~Pipeline!Approvable(NoCast.cast)
<1>1. Pipeline!NoRow \in Rows
  BY DEF Pipeline!NoRow, Rows
<1>2. Pipeline!NoScript \in DirectedBooks
  BY DEF Pipeline!NoScript, DirectedBooks, Texts, ProfileIds
<1>3. Pipeline!NoOutput \in Outputs
  BY DEF Pipeline!NoOutput, Outputs, Texts, ProfileIds
<1>4. Pipeline!Idle \in ProcessRecords
  BY <1>1, <1>2 DEF Pipeline!Idle, ProcessRecords, NoCast
<1>5. NoCast.cast = {} /\ ~Pipeline!Approvable(NoCast.cast)
  BY DEF NoCast, Pipeline!NoApproval, Pipeline!Approvable, Pipeline!Canonical
<1> QED BY <1>1, <1>2, <1>3, <1>4, <1>5

\* A process has a cast of assignments, which its contract tells
LEMMA ProcessCast ==
  ASSUME NEW p, NEW me \in ProcessRecords
  PROVE  CastFor(p, me) \subseteq Pipeline!Assignments /\ ContractFor(p, me) \in Contracts
<1>1. CastFor(p, me) \subseteq Pipeline!Assignments
  <2>1. me.approval = NoCast \/ me.approval \in Drafts
    BY DEF ProcessRecords
  <2>2. me.approval.cast \subseteq Pipeline!Assignments
    <3>1. CASE me.approval = NoCast
      BY <3>1, Emptiness
    <3>2. CASE me.approval \in Drafts
      BY <3>2, PipelineAssumption
    <3> QED BY <2>1, <3>1, <3>2
  <2>3. HouseCast \subseteq Pipeline!Assignments
    BY PipelineAssumption
  <2> QED BY <2>2, <2>3 DEF CastFor
<1>2. Pipeline!GenerationIdentity(CastFor(p, me)) \in Identities
  BY <1>1 DEF Pipeline!GenerationIdentity, Pipeline!Assignments, Identities
<1>3. (p \in Webs) \in BOOLEAN
  OBVIOUS
<1>4. ContractFor(p, me) \in Contracts
  BY <1>2, <1>3, Zenon DEF ContractFor, Contracts
<1> QED BY <1>1, <1>4

\* As the definitions of the model say it
LEMMA CastsOf ==
  ASSUME NEW p
  PROVE  /\ Pipeline!CastOf(p) = CastFor(p, kProcess[p])
         /\ Pipeline!RenderContract(p) = ContractFor(p, kProcess[p])
         /\ Pipeline!CommandIdentity(p) =
              <<ContractFor(p, kProcess[p]), Pipeline!CanonicalSliceDescriptor(kProcess[p].limits)>>
BY DEF Pipeline!CastOf, Pipeline!RenderContract, Pipeline!CommandIdentity, CastFor, ContractFor

LEMMA PipelineBegins == Pipeline!PipelineInit => PipelineInv
<1> SUFFICES ASSUME Pipeline!PipelineInit PROVE PipelineInv
  OBVIOUS
<1>1. PipelineTyped
  BY Emptiness DEF Pipeline!PipelineInit, PipelineTyped
<1>2. LedgerOK
  BY DEF Pipeline!PipelineInit, LedgerOK, NoCast
<1>3. ASSUME NEW j \in Pipeline!Jobs
      PROVE  RowOK(kRows[j], kBooks, kSigned) /\ OutputOK(kRows[j], kOutputs[j], kSigned)
  <2>1. kRows[j] = Pipeline!NoRow /\ kOutputs[j] = Pipeline!NoOutput
    BY DEF Pipeline!PipelineInit
  <2> QED BY <2>1 DEF RowOK, OutputOK, Pipeline!NoRow, Pipeline!NoOutput
<1>4. ASSUME NEW p \in Pipeline!Processes PROVE ProcessOK(p, kProcess[p], kBooks, kSigned)
  <2>1. kProcess[p] = Pipeline!Idle
    BY DEF Pipeline!PipelineInit
  <2> QED BY <2>1 DEF ProcessOK, Pipeline!Idle, Directs, Renders, NoCast
<1> QED BY <1>1, <1>2, <1>3, <1>4 DEF PipelineInv

-----------------------------------------------------------------------------
(* What a step leaves as it was                                            *)

\* A book that is extracted again is the same window
SameTexts(books, new) ==
  \A b \in Pipeline!BookIds, l \in Slices :
    b = Pipeline!WindowedBookId(l) /\ books[b].text = Pipeline!Window(l) =>
      new[b].text = Pipeline!Window(l)

LEMMA RowStays ==
  ASSUME NEW row \in Rows, NEW books, NEW new, NEW signed, NEW more,
         RowOK(row, books, signed), SameTexts(books, new), signed \subseteq more
  PROVE  RowOK(row, new, more)
<1>1. CASE row.attached
  <2>1. row.command[2] \in Slices
    BY <1>1 DEF RowOK, Rows
  <2>2. new[row.book].text = Pipeline!Window(row.command[2])
    BY <1>1, <2>1 DEF RowOK, SameTexts
  <2> QED BY <1>1, <2>2 DEF RowOK
<1> QED BY <1>1 DEF RowOK

LEMMA ProcessStays ==
  ASSUME NEW p, NEW me \in ProcessRecords, NEW books, NEW new, NEW signed, NEW more,
         ProcessOK(p, me, books, signed), SameTexts(books, new), signed \subseteq more
  PROVE  ProcessOK(p, me, new, more)
<1>1. me.row \in Rows
  BY DEF ProcessRecords
<1>2. RowOK(me.row, books, signed) => RowOK(me.row, new, more)
  BY <1>1, RowStays
<1> QED BY <1>2 DEF ProcessOK

LEMMA SameBooks == \A books : SameTexts(books, books)
BY DEF SameTexts

LEMMA IdleOK ==
  ASSUME NEW p, NEW books, NEW signed
  PROVE  ProcessOK(p, Pipeline!Idle, books, signed)
BY DEF ProcessOK, Pipeline!Idle, Directs, Renders, NoCast

\* A process goes on, and at most one row, one output and one book change
LEMMA PipelineGoes ==
  ASSUME PipelineInv, NEW p \in Pipeline!Processes, NEW me \in ProcessRecords,
         kProcess' = [kProcess EXCEPT ![p] = me], UNCHANGED <<kLedger, kSigned>>,
         ProcessOK(p, me, kBooks', kSigned),
         NEW j \in Pipeline!Jobs, NEW row \in Rows, NEW output \in Outputs,
         kRows' = [kRows EXCEPT ![j] = row], kOutputs' = [kOutputs EXCEPT ![j] = output],
         RowOK(row, kBooks', kSigned), OutputOK(row, output, kSigned),
         kBooks' \in [Pipeline!BookIds -> DirectedBooks], SameTexts(kBooks, kBooks')
  PROVE  PipelineInv'
<1>1. PipelineTyped'
  BY DEF PipelineInv, PipelineTyped
<1>2. LedgerOK'
  BY DEF PipelineInv, LedgerOK
<1>3. ASSUME NEW k \in Pipeline!Jobs
      PROVE  RowOK(kRows'[k], kBooks', kSigned') /\ OutputOK(kRows'[k], kOutputs'[k], kSigned')
  <2>1. CASE k = j
    <3>1. kRows'[k] = row /\ kOutputs'[k] = output
      BY <2>1 DEF PipelineInv, PipelineTyped
    <3> QED BY <3>1
  <2>2. CASE k # j
    <3>1. kRows'[k] = kRows[k] /\ kOutputs'[k] = kOutputs[k] /\ kRows[k] \in Rows
      BY <2>2 DEF PipelineInv, PipelineTyped
    <3>2. RowOK(kRows[k], kBooks, kSigned) /\ OutputOK(kRows[k], kOutputs[k], kSigned)
      BY DEF PipelineInv
    <3> QED BY <3>1, <3>2, RowStays
  <2> QED BY <2>1, <2>2
<1>4. ASSUME NEW q \in Pipeline!Processes PROVE ProcessOK(q, kProcess'[q], kBooks', kSigned')
  <2>1. CASE q = p
    <3>1. kProcess'[q] = me
      BY <2>1 DEF PipelineInv, PipelineTyped
    <3> QED BY <2>1, <3>1
  <2>2. CASE q # p
    <3>1. kProcess'[q] = kProcess[q] /\ kProcess[q] \in ProcessRecords
      BY <2>2 DEF PipelineInv, PipelineTyped
    <3>2. ProcessOK(q, kProcess[q], kBooks, kSigned)
      BY DEF PipelineInv
    <3> QED BY <3>1, <3>2, ProcessStays
  <2> QED BY <2>1, <2>2
<1> QED BY <1>1, <1>2, <1>3, <1>4 DEF PipelineInv

\* A process goes on, and no table changes
LEMMA PipelineReads ==
  ASSUME PipelineInv, NEW p \in Pipeline!Processes, NEW me \in ProcessRecords,
         kProcess' = [kProcess EXCEPT ![p] = me],
         UNCHANGED <<kLedger, kSigned, kRows, kBooks, kOutputs>>,
         ProcessOK(p, me, kBooks, kSigned)
  PROVE  PipelineInv'
<1>1. PipelineTyped'
  BY DEF PipelineInv, PipelineTyped
<1>2. LedgerOK'
  BY DEF PipelineInv, LedgerOK
<1>3. \A j \in Pipeline!Jobs :
        RowOK(kRows'[j], kBooks', kSigned') /\ OutputOK(kRows'[j], kOutputs'[j], kSigned')
  BY DEF PipelineInv
<1>4. \A q \in Pipeline!Processes : ProcessOK(q, kProcess'[q], kBooks', kSigned')
  BY DEF PipelineInv, PipelineTyped
<1> QED BY <1>1, <1>2, <1>3, <1>4 DEF PipelineInv

\* A contract tells the web's from a command's, and what can be heard of the cast
LEMMA ContractParts ==
  ASSUME NEW p, NEW me
  PROVE  /\ ContractFor(p, me)[1] <=> p \in Webs
         /\ ContractFor(p, me)[2] = Pipeline!GenerationIdentity(CastFor(p, me))
<1> DEFINE web == p \in Webs
           identity == Pipeline!GenerationIdentity(CastFor(p, me))
<1>1. ContractFor(p, me) = <<web, identity>>
  BY DEF ContractFor
<1> HIDE DEF web, identity
<1>2. <<web, identity>>[1] = web /\ <<web, identity>>[2] = identity
  BY Zenon
<1> QED BY <1>1, <1>2, Zenon DEF web, identity

\* A process goes on, and one row changes that is not completed
LEMMA PipelineWrites ==
  ASSUME PipelineInv, NEW p \in Pipeline!Processes, NEW me \in ProcessRecords,
         kProcess' = [kProcess EXCEPT ![p] = me], UNCHANGED <<kLedger, kSigned, kOutputs>>,
         ProcessOK(p, me, kBooks', kSigned),
         NEW j \in Pipeline!Jobs, NEW row \in Rows, row.state # "completed",
         kRows' = [kRows EXCEPT ![j] = row], RowOK(row, kBooks', kSigned),
         kBooks' \in [Pipeline!BookIds -> DirectedBooks], SameTexts(kBooks, kBooks')
  PROVE  PipelineInv'
<1>1. kOutputs[j] \in Outputs /\ OutputOK(kRows[j], kOutputs[j], kSigned)
  BY DEF PipelineInv, PipelineTyped
<1>2. OutputOK(row, kOutputs[j], kSigned)
  BY <1>1 DEF OutputOK
<1>3. kOutputs' = [kOutputs EXCEPT ![j] = kOutputs[j]]
  BY DEF PipelineInv, PipelineTyped
<1> QED BY <1>1, <1>2, <1>3, PipelineGoes

\* A process has read what stands in the tables
LEMMA WhatStands ==
  ASSUME PipelineInv, NEW p \in Pipeline!Processes
  PROVE  /\ kProcess[p] \in ProcessRecords
         /\ ProcessOK(p, kProcess[p], kBooks, kSigned)
         /\ kProcess \in [Pipeline!Processes -> ProcessRecords]
         /\ kBooks \in [Pipeline!BookIds -> DirectedBooks]
         /\ kRows \in [Pipeline!Jobs -> Rows] /\ kOutputs \in [Pipeline!Jobs -> Outputs]
         /\ kProcess[p].pc # "idle" =>
              /\ kProcess[p].job \in Pipeline!Jobs /\ kProcess[p].limits \in Slices
              /\ kRows[kProcess[p].job] \in Rows
              /\ RowOK(kRows[kProcess[p].job], kBooks, kSigned)
<1>1. /\ kProcess[p] \in ProcessRecords /\ ProcessOK(p, kProcess[p], kBooks, kSigned)
      /\ kProcess \in [Pipeline!Processes -> ProcessRecords]
      /\ kBooks \in [Pipeline!BookIds -> DirectedBooks]
      /\ kRows \in [Pipeline!Jobs -> Rows] /\ kOutputs \in [Pipeline!Jobs -> Outputs]
  BY DEF PipelineInv, PipelineTyped
<1>2. kProcess[p].pc # "idle" =>
        kProcess[p].job \in Pipeline!Jobs /\ kProcess[p].limits \in Slices
  BY <1>1 DEF ProcessOK
<1>3. \A j \in Pipeline!Jobs : kRows[j] \in Rows /\ RowOK(kRows[j], kBooks, kSigned)
  BY <1>1 DEF PipelineInv
<1> QED BY <1>1, <1>2, <1>3

\* A command that ends forgets what it has read
LEMMA PipelineEnds ==
  ASSUME PipelineInv, NEW p \in Pipeline!Processes, Pipeline!Ends(p),
         UNCHANGED <<kLedger, kSigned, kRows, kBooks, kOutputs>>
  PROVE  PipelineInv'
<1>1. kProcess' = [kProcess EXCEPT ![p] = Pipeline!Idle]
  BY DEF Pipeline!Ends
<1> QED BY <1>1, Emptiness, IdleOK, PipelineReads

-----------------------------------------------------------------------------
(* The steps                                                               *)

LEMMA Approves ==
  ASSUME PipelineInv, NEW d \in Drafts, Pipeline!Approve(d)
  PROVE  PipelineInv'
<1>1. /\ Pipeline!Approvable(d.cast) /\ kLedger' = d /\ kSigned' = kSigned \cup {d}
      /\ UNCHANGED <<kRows, kBooks, kOutputs, kProcess>>
  BY DEF Pipeline!Approve
<1>2. PipelineTyped'
  BY <1>1 DEF PipelineInv, PipelineTyped
<1>3. LedgerOK'
  BY <1>1 DEF PipelineInv, LedgerOK
<1>4. ASSUME NEW j \in Pipeline!Jobs
      PROVE  RowOK(kRows'[j], kBooks', kSigned') /\ OutputOK(kRows'[j], kOutputs'[j], kSigned')
  <2>1. /\ kRows[j] \in Rows /\ RowOK(kRows[j], kBooks, kSigned)
        /\ OutputOK(kRows[j], kOutputs[j], kSigned)
    BY DEF PipelineInv, PipelineTyped
  <2>2. RowOK(kRows[j], kBooks, kSigned')
    BY <1>1, <2>1, SameBooks, RowStays
  <2>3. OutputOK(kRows[j], kOutputs[j], kSigned')
    BY <1>1, <2>1 DEF OutputOK
  <2> QED BY <1>1, <2>2, <2>3
<1>5. ASSUME NEW p \in Pipeline!Processes PROVE ProcessOK(p, kProcess'[p], kBooks', kSigned')
  <2>1. kProcess[p] \in ProcessRecords /\ ProcessOK(p, kProcess[p], kBooks, kSigned)
    BY DEF PipelineInv, PipelineTyped
  <2>2. ProcessOK(p, kProcess[p], kBooks, kSigned')
    BY <1>1, <2>1, SameBooks, ProcessStays
  <2> QED BY <1>1, <2>2
<1> QED BY <1>2, <1>3, <1>4, <1>5 DEF PipelineInv

LEMMA Starting ==
  ASSUME PipelineInv, NEW p \in Pipeline!Processes, NEW op \in Pipeline!Operations,
         NEW job \in Pipeline!Jobs, NEW limits \in Slices, NEW approval \in {NoCast} \cup Drafts,
         p \in Commands => approval \in kSigned \cup {NoCast},
         Pipeline!Starts(p, op, job, limits, approval)
  PROVE  PipelineInv'
<1> DEFINE me == [Pipeline!Idle EXCEPT !.pc = "launched", !.op = op, !.job = job,
                                       !.limits = limits, !.approval = approval]
<1>1. me \in ProcessRecords
  BY Emptiness DEF ProcessRecords
<1>2. me.pc = "launched" /\ me.job = job /\ me.limits = limits /\ me.approval = approval
  BY DEF Pipeline!Idle
<1>3. /\ kProcess' = [kProcess EXCEPT ![p] = me]
      /\ UNCHANGED <<kLedger, kSigned, kRows, kBooks, kOutputs>>
  BY DEF Pipeline!Starts, Pipeline!Tables
<1> HIDE DEF me
<1>4. ProcessOK(p, me, kBooks, kSigned)
  BY <1>2 DEF ProcessOK, Directs, Renders
<1> QED BY <1>1, <1>3, <1>4, PipelineReads

LEMMA CommandsLaunch ==
  ASSUME PipelineInv, NEW op \in Pipeline!Operations, NEW p \in Commands,
         NEW job \in CommandJobs, NEW limits \in Asked,
         Pipeline!LaunchCommand(p, op, job, limits)
  PROVE  PipelineInv'
<1>1. Pipeline!Starts(p, op, job, limits, kLedger)
  BY DEF Pipeline!LaunchCommand
<1>2. kLedger \in kSigned \cup {NoCast} /\ kSigned \subseteq Drafts
  BY DEF PipelineInv, LedgerOK, PipelineTyped
<1>3. p \in Pipeline!Processes /\ job \in Pipeline!Jobs /\ limits \in Slices
  BY DEF Pipeline!Processes, Pipeline!Jobs, Slices
<1> QED BY <1>1, <1>2, <1>3, Starting

LEMMA WebsLaunch ==
  ASSUME PipelineInv, NEW op \in Pipeline!Operations, NEW p \in Webs,
         NEW job \in Pipeline!Jobs \ CommandJobs, Pipeline!LaunchWeb(p, op, job)
  PROVE  PipelineInv'
<1>1. Pipeline!Starts(p, op, job, job, NoCast)
  BY DEF Pipeline!LaunchWeb, NoCast
<1>2. p \in Pipeline!Processes /\ job \in Slices
  BY DEF Pipeline!Processes, Pipeline!Jobs, Pipeline!DeriveJobId, Slices
<1>3. p \notin Commands
  BY PipelineAssumption
<1> QED BY <1>1, <1>2, <1>3, Starting

LEMMA Dispatches ==
  ASSUME PipelineInv, NEW p \in Pipeline!Processes, Pipeline!Dispatch(p)
  PROVE  PipelineInv'
<1>1. UNCHANGED <<kLedger, kSigned, kRows, kBooks, kOutputs>> /\ kProcess[p].pc = "launched"
  BY DEF Pipeline!Dispatch, Pipeline!Tables, Pipeline!At
<1>2. PICK next \in {"direct", "confirm", "render", "refused"} :
        IF next = "refused" THEN Pipeline!Ends(p)
        ELSE kProcess' = [kProcess EXCEPT ![p].pc = next,
                                          ![p].recover = (kProcess[p].op = "resume")]
  BY DEF Pipeline!Dispatch
<1>3. CASE next = "refused"
  BY <1>1, <1>2, <1>3, PipelineEnds
<1>4. CASE next # "refused"
  <2> DEFINE old == kProcess[p]
             me == [old EXCEPT !.pc = next, !.recover = (old.op = "resume")]
  <2>1. old \in ProcessRecords /\ ProcessOK(p, old, kBooks, kSigned)
    BY WhatStands
  <2>2. kProcess' = [kProcess EXCEPT ![p] = me]
    BY <1>2, <1>4, WhatStands
  <2>3. me \in ProcessRecords
    BY <1>4, <2>1 DEF ProcessRecords
  <2>4. /\ me.pc = next /\ me.job = old.job /\ me.limits = old.limits
        /\ me.approval = old.approval
    BY <2>1 DEF ProcessRecords
  <2>5. old.pc = "launched"
    BY <1>1
  <2> HIDE DEF me, old
  <2>6. ProcessOK(p, me, kBooks, kSigned)
    BY <1>4, <2>1, <2>4, <2>5 DEF ProcessOK, Directs, Renders
  <2> QED BY <1>1, <2>2, <2>3, <2>6, PipelineReads
<1> QED BY <1>3, <1>4

LEMMA LoadsDirection ==
  ASSUME PipelineInv, NEW p \in Pipeline!Processes, Pipeline!LoadDirection(p)
  PROVE  PipelineInv'
<1> DEFINE old == kProcess[p]
           row == kRows[old.job]
           fresh == row.state = "absent"
           contract == ContractFor(p, old)
           command == <<contract, Pipeline!CanonicalSliceDescriptor(old.limits)>>
           new == [row EXCEPT !.state = "running",
                              !.stage = IF fresh THEN "extracting" ELSE @,
                              !.command = command, !.contract = contract]
           me == [old EXCEPT !.pc = "claim", !.row = new]
           again == row.command = command /\ row.stage \in Pipeline!DirectingStages
<1>1. UNCHANGED <<kLedger, kSigned, kRows, kBooks, kOutputs>> /\ old.pc = "direct"
  BY DEF Pipeline!LoadDirection, Pipeline!Tables, Pipeline!At
<1>2. CASE ~(fresh \/ again)
  <2>1. Pipeline!Ends(p)
    BY <1>2, CastsOf DEF Pipeline!LoadDirection
  <2> QED BY <1>1, <2>1, PipelineEnds
<1>3. CASE Pipeline!Ends(p)
  BY <1>1, <1>3, PipelineEnds
<1>4. CASE (fresh \/ again) /\ ~Pipeline!Ends(p)
  <2>1. kProcess' = [kProcess EXCEPT ![p] = me]
    <3>1. kProcess' = [kProcess EXCEPT ![p].pc = "claim", ![p].row = new]
      BY <1>4, CastsOf DEF Pipeline!LoadDirection
    <3> QED BY <3>1, WhatStands
  <2>2. /\ old \in ProcessRecords /\ ProcessOK(p, old, kBooks, kSigned)
        /\ row \in Rows /\ RowOK(row, kBooks, kSigned)
        /\ old.job \in Pipeline!Jobs /\ old.limits \in Slices
    BY <1>1, WhatStands
  <2>3. contract \in Contracts /\ Pipeline!CanonicalSliceDescriptor(old.limits) \in Slices
    BY <2>2, ProcessCast, SliceIds
  <2>4. /\ new.state = "running" /\ new.command = command /\ new.contract = contract
        /\ new.stage = (IF fresh THEN "extracting" ELSE row.stage)
        /\ new.attached = row.attached /\ new.book = row.book
    BY <2>2 DEF Rows
  <2> HIDE DEF contract
  <2>5. command # <<>> /\ command[1] = contract /\ command \in Contracts \X Slices
    BY <2>3
  <2>6. new \in Rows
    BY <2>2, <2>3, <2>5 DEF Rows
  <2>7. new.stage \in Pipeline!DirectingStages
    BY <1>4, <2>4 DEF Pipeline!DirectingStages
  <2>8. /\ me.pc = "claim" /\ me.row = new /\ me.job = old.job /\ me.limits = old.limits
        /\ me.approval = old.approval
    BY <2>2 DEF ProcessRecords
  <2>9. me \in ProcessRecords
    BY <2>2, <2>6 DEF ProcessRecords
  <2>10. ContractFor(p, me) = contract
    BY <2>8 DEF contract, ContractFor, CastFor
  <2> HIDE DEF me, new, command
  <2>11. RowOK(new, kBooks, kSigned)
    <3>1. CASE fresh
      <4>1. ~new.attached /\ new.stage # "directing"
        BY <2>2, <2>4, <3>1 DEF RowOK
      <4> QED BY <2>4, <2>5, <4>1 DEF RowOK
    <3>2. CASE ~fresh
      <4>1. row.command = command /\ row.command[1] = row.contract
        BY <1>4, <2>2, <3>2 DEF RowOK
      <4>2. row.contract = contract
        BY <2>5, <4>1
      <4> QED BY <2>2, <2>4, <2>5, <3>2, <4>1, <4>2 DEF RowOK
    <3> QED BY <3>1, <3>2
  <2>12. ProcessOK(p, me, kBooks, kSigned)
    BY <2>2, <2>4, <2>7, <2>8, <2>10, <2>11 DEF ProcessOK, Directs, Renders, command
  <2> QED BY <1>1, <2>1, <2>9, <2>12, PipelineReads
<1> QED BY <1>2, <1>3, <1>4

LEMMA ClaimsDirection ==
  ASSUME PipelineInv, NEW p \in Pipeline!Processes, Pipeline!ClaimDirection(p)
  PROVE  PipelineInv'
<1> DEFINE old == kProcess[p]
           me == [old EXCEPT !.pc = old.row.stage]
<1>1. /\ UNCHANGED <<kLedger, kSigned, kBooks, kOutputs>> /\ old.pc = "claim"
      /\ kRows' = [kRows EXCEPT ![old.job] = old.row]
      /\ kProcess' = [kProcess EXCEPT ![p].pc = old.row.stage]
  BY DEF Pipeline!ClaimDirection, Pipeline!Tables, Pipeline!At, Pipeline!Moves
<1>2. /\ old \in ProcessRecords /\ ProcessOK(p, old, kBooks, kSigned) /\ old.row \in Rows
      /\ old.job \in Pipeline!Jobs /\ old.limits \in Slices
  BY <1>1, WhatStands DEF ProcessRecords
<1>3. kProcess' = [kProcess EXCEPT ![p] = me]
  BY <1>1, WhatStands
<1>4. /\ RowOK(old.row, kBooks, kSigned) /\ old.row.stage \in {"extracting", "directing"}
      /\ old.row.state # "completed" /\ old.row.state # "absent"
      /\ old.row.contract = ContractFor(p, old)
      /\ old.row.command = <<ContractFor(p, old), Pipeline!CanonicalSliceDescriptor(old.limits)>>
  BY <1>1, <1>2 DEF ProcessOK, Directs, Pipeline!DirectingStages
<1>5. me \in ProcessRecords
  BY <1>2, <1>4 DEF ProcessRecords
<1>6. /\ me.pc = old.row.stage /\ me.row = old.row /\ me.job = old.job /\ me.limits = old.limits
      /\ me.approval = old.approval
  BY <1>2 DEF ProcessRecords
<1> HIDE DEF me
<1>7. ContractFor(p, me) = ContractFor(p, old)
  BY <1>6 DEF ContractFor, CastFor
<1>8. old.row.stage = "directing" => old.row.attached
  BY <1>4 DEF RowOK
<1> HIDE DEF old
<1>9. ProcessOK(p, me, kBooks, kSigned)
  BY <1>2, <1>4, <1>6, <1>7, <1>8 DEF ProcessOK, Directs, Renders
<1>10. kBooks' = kBooks /\ kBooks \in [Pipeline!BookIds -> DirectedBooks]
       /\ SameTexts(kBooks, kBooks')
  BY <1>1, WhatStands, SameBooks
<1> QED BY <1>1, <1>2, <1>3, <1>4, <1>5, <1>9, <1>10, PipelineWrites

LEMMA Extracts ==
  ASSUME PipelineInv, NEW p \in Pipeline!Processes, Pipeline!Extract(p)
  PROVE  PipelineInv'
<1> DEFINE old == kProcess[p]
           id == Pipeline!WindowedBookId(old.limits)
           row == [old.row EXCEPT !.stage = "directing", !.attached = TRUE, !.book = id]
           me == [old EXCEPT !.pc = "directing", !.row = row]
           window == Pipeline!Window(old.limits)
           script == [Pipeline!NoScript EXCEPT !.text = window]
<1>1. /\ UNCHANGED <<kLedger, kSigned, kOutputs>> /\ old.pc = "extracting"
      /\ kBooks' = [kBooks EXCEPT ![id] = script]
      /\ kRows' = [kRows EXCEPT ![old.job] = row]
      /\ kProcess' = [kProcess EXCEPT ![p].pc = "directing", ![p].row = row]
      /\ ~Pipeline!PastTheEnd(old.limits)
      /\ old.approval # NoCast => old.approval.book = id
  BY DEF Pipeline!Extract, Pipeline!At, Pipeline!MayExtract, NoCast
<1>2. /\ old \in ProcessRecords /\ ProcessOK(p, old, kBooks, kSigned) /\ old.row \in Rows
      /\ old.job \in Pipeline!Jobs /\ old.limits \in Slices
  BY <1>1, WhatStands DEF ProcessRecords
<1>3. kProcess' = [kProcess EXCEPT ![p] = me]
  BY <1>1, WhatStands
<1>4. id \in Pipeline!BookIds /\ window \in Texts
  BY <1>1, <1>2, SliceIds DEF Texts
<1>5. script \in DirectedBooks /\ script.text = window
  BY <1>4, Emptiness DEF DirectedBooks
<1>6. kBooks' \in [Pipeline!BookIds -> DirectedBooks] /\ kBooks'[id] = script
      /\ \A b \in Pipeline!BookIds : b # id => kBooks'[b] = kBooks[b]
  BY <1>1, <1>4, <1>5, WhatStands
<1> HIDE DEF script
<1>7. SameTexts(kBooks, kBooks')
  <2> SUFFICES ASSUME NEW b \in Pipeline!BookIds, NEW l \in Slices,
                      b = Pipeline!WindowedBookId(l), kBooks[b].text = Pipeline!Window(l)
               PROVE  kBooks'[b].text = Pipeline!Window(l)
    BY DEF SameTexts
  <2>1. CASE b = id
    <3>1. Pipeline!Window(l) = window
      BY <2>1, OneWindow
    <3> QED BY <1>5, <1>6, <2>1, <3>1
  <2>2. CASE b # id
    BY <1>6, <2>2
  <2> QED BY <2>1, <2>2
<1>8. /\ old.row.command = <<ContractFor(p, old), Pipeline!CanonicalSliceDescriptor(old.limits)>>
      /\ old.row.contract = ContractFor(p, old)
      /\ RowOK(old.row, kBooks, kSigned) /\ old.row.state \notin {"absent", "completed"}
      /\ p \in Commands => old.approval \in kSigned \cup {NoCast}
  BY <1>1, <1>2 DEF ProcessOK, Directs
<1>9. /\ row.stage = "directing" /\ row.attached /\ row.book = id /\ row.state = old.row.state
      /\ row.command = old.row.command /\ row.contract = old.row.contract
  BY <1>2 DEF Rows
<1>10. row \in Rows
  BY <1>2, <1>4 DEF Rows
<1>11. /\ me.pc = "directing" /\ me.row = row /\ me.job = old.job /\ me.limits = old.limits
       /\ me.approval = old.approval
  BY <1>2 DEF ProcessRecords
<1>12. me \in ProcessRecords
  BY <1>2, <1>10 DEF ProcessRecords
<1>13. /\ row.command[2] = Pipeline!CanonicalSliceDescriptor(old.limits)
       /\ id = Pipeline!WindowedBookId(row.command[2]) /\ window = Pipeline!Window(row.command[2])
  <2>1. row.command[2] = Pipeline!CanonicalSliceDescriptor(old.limits)
    BY <1>8, <1>9
  <2> QED BY <2>1, CanonicalWindow
<1>14. row.command # <<>> /\ row.command[1] = row.contract
  BY <1>8, <1>9 DEF RowOK
<1>15. ASSUME ~row.contract[1]
       PROVE  \E d \in kSigned \cup {NoCast} :
                /\ d # NoCast => d.book = id
                /\ row.contract[2] = Pipeline!GenerationIdentity(d.cast)
  <2>1. p \notin Webs /\ row.contract[2] = Pipeline!GenerationIdentity(CastFor(p, old))
    BY <1>8, <1>9, <1>15, ContractParts
  <2>2. p \in Commands
    BY <2>1 DEF Pipeline!Processes
  <2>3. old.approval \in kSigned \cup {NoCast} /\ CastFor(p, old) = old.approval.cast
    BY <1>8, <2>1, <2>2 DEF CastFor
  <2> QED BY <1>1, <2>1, <2>3
<1>16. ContractFor(p, me) = ContractFor(p, old)
  BY <1>11 DEF ContractFor, CastFor
<1> HIDE DEF me, row, id, window
<1>17. RowOK(row, kBooks', kSigned)
  BY <1>4, <1>5, <1>6, <1>8, <1>9, <1>13, <1>14, <1>15 DEF RowOK
<1> HIDE DEF old
<1>18. ProcessOK(p, me, kBooks', kSigned)
  BY <1>2, <1>8, <1>9, <1>11, <1>16, <1>17 DEF ProcessOK, Directs, Renders
<1> QED BY <1>1, <1>2, <1>3, <1>6, <1>7, <1>8, <1>9, <1>10, <1>12, <1>17, <1>18, PipelineWrites

LEMMA Directing ==
  ASSUME PipelineInv, NEW p \in Pipeline!Processes, Pipeline!Direct(p)
  PROVE  PipelineInv'
<1> DEFINE old == kProcess[p]
           row == [old.row EXCEPT !.state = "awaiting_review"]
           cast == CastFor(p, old)
           book == kBooks[row.book]
<1>1. /\ UNCHANGED <<kLedger, kSigned, kOutputs>> /\ old.pc = "directing"
      /\ kProcess' = [kProcess EXCEPT ![p] = Pipeline!Idle]
  BY DEF Pipeline!Direct, Pipeline!At, Pipeline!Ends
<1>2. PICK line \in Pipeline!CastSpeakers(cast) \cup {"narration", "unresolved", "stranger"} :
        /\ kBooks' = [kBooks EXCEPT ![row.book] =
             [book EXCEPT !.line = line, !.profile = Pipeline!Resolve(cast, line)]]
        /\ kRows' = [kRows EXCEPT ![old.job] = row]
  BY CastsOf DEF Pipeline!Direct
<1>3. /\ old \in ProcessRecords /\ ProcessOK(p, old, kBooks, kSigned) /\ old.row \in Rows
      /\ old.job \in Pipeline!Jobs
  BY <1>1, WhatStands DEF ProcessRecords
<1>4. RowOK(old.row, kBooks, kSigned) /\ old.row.attached /\ old.row.state # "absent"
  BY <1>1, <1>3 DEF ProcessOK, Directs
<1>5. /\ row \in Rows /\ row.state = "awaiting_review" /\ row.stage = old.row.stage
      /\ row.attached = old.row.attached /\ row.book = old.row.book
      /\ row.command = old.row.command /\ row.contract = old.row.contract
  BY <1>3 DEF Rows
<1>6. row.book \in Pipeline!BookIds
  BY <1>4, <1>5 DEF RowOK
<1>7. book \in DirectedBooks
  BY <1>6, WhatStands
<1>8. line \in Speakers \cup {"narration", "unresolved", "stranger"}
      /\ Pipeline!Resolve(cast, line) \in ProfileIds
  <2>1. cast \subseteq Pipeline!Assignments
    BY <1>3, ProcessCast
  <2>2. Pipeline!CastSpeakers(cast) \subseteq Speakers
    BY <2>1 DEF Pipeline!CastSpeakers, Pipeline!Assignments
  <2> QED BY <2>2 DEF Pipeline!Resolve, ProfileIds
<1> DEFINE script == [book EXCEPT !.line = line, !.profile = Pipeline!Resolve(cast, line)]
<1>9. script \in DirectedBooks /\ script.text = book.text
  BY <1>7, <1>8 DEF DirectedBooks
<1>10. kBooks' = [kBooks EXCEPT ![row.book] = script]
  BY <1>2
<1> HIDE DEF script
<1>11. /\ kBooks' \in [Pipeline!BookIds -> DirectedBooks]
       /\ \A b \in Pipeline!BookIds : kBooks'[b].text = kBooks[b].text
  BY <1>6, <1>9, <1>10, WhatStands
<1>12. SameTexts(kBooks, kBooks')
  BY <1>11 DEF SameTexts
<1>13. RowOK(row, kBooks, kSigned)
  BY <1>4, <1>5 DEF RowOK
<1> HIDE DEF row
<1>14. RowOK(row, kBooks', kSigned)
  BY <1>5, <1>12, <1>13, RowStays
<1>15. ProcessOK(p, Pipeline!Idle, kBooks', kSigned)
  BY IdleOK
<1> HIDE DEF old
<1> QED BY <1>1, <1>2, <1>3, <1>5, <1>11, <1>12, <1>14, <1>15, Emptiness, PipelineWrites

LEMMA Confirms ==
  ASSUME PipelineInv, NEW p \in Pipeline!Processes, Pipeline!Confirm(p)
  PROVE  PipelineInv'
<1> DEFINE old == kProcess[p]
           me == [old EXCEPT !.pc = "render"]
<1>1. UNCHANGED <<kLedger, kSigned, kRows, kBooks, kOutputs>> /\ old.pc = "confirm"
  BY DEF Pipeline!Confirm, Pipeline!At
<1>2. CASE Pipeline!Ends(p)
  BY <1>1, <1>2, PipelineEnds
<1>3. CASE Pipeline!Moves(p, "render")
  <2>1. kProcess' = [kProcess EXCEPT ![p] = me] /\ old \in ProcessRecords
        /\ ProcessOK(p, old, kBooks, kSigned)
    BY <1>3, WhatStands DEF Pipeline!Moves
  <2>2. /\ me.pc = "render" /\ me.job = old.job /\ me.limits = old.limits
        /\ me.approval = old.approval /\ me \in ProcessRecords
    BY <2>1 DEF ProcessRecords
  <2> HIDE DEF me, old
  <2>3. ProcessOK(p, me, kBooks, kSigned)
    BY <1>1, <2>1, <2>2 DEF ProcessOK, Directs, Renders
  <2> QED BY <1>1, <2>1, <2>2, <2>3, PipelineReads
<1> QED BY <1>2, <1>3 DEF Pipeline!Confirm

LEMMA LoadsRender ==
  ASSUME PipelineInv, NEW p \in Pipeline!Processes, Pipeline!LoadRender(p)
  PROVE  PipelineInv'
<1> DEFINE old == kProcess[p]
           row == kRows[old.job]
           script == kBooks[row.book]
           may == Pipeline!MayRender(p, row)
<1>1. UNCHANGED <<kLedger, kSigned, kBooks, kOutputs>> /\ old.pc = "render"
  BY DEF Pipeline!LoadRender, Pipeline!Tables, Pipeline!At
<1>2. /\ old \in ProcessRecords /\ ProcessOK(p, old, kBooks, kSigned)
      /\ row \in Rows /\ RowOK(row, kBooks, kSigned)
      /\ old.job \in Pipeline!Jobs /\ old.limits \in Slices
  BY <1>1, WhatStands
<1>3. CASE may /\ Pipeline!Plannable(p, row)
  <2> DEFINE me == [old EXCEPT !.pc = "planned", !.row = row, !.script = script]
  <2>1. /\ kProcess' = [kProcess EXCEPT ![p].pc = "planned", ![p].row = row,
                                        ![p].script = script]
        /\ UNCHANGED kRows
    BY <1>3 DEF Pipeline!LoadRender
  <2>2. kProcess' = [kProcess EXCEPT ![p] = me]
    BY <2>1, WhatStands
  <2>3. /\ row.attached /\ row.contract = ContractFor(p, old)
        /\ row.state \in {"awaiting_review", "failed", "running"}
        /\ Pipeline!KnowsProfile(CastFor(p, old), script.profile)
    BY <1>3, CastsOf DEF Pipeline!MayRender, Pipeline!Directed, Pipeline!SameContract,
                         Pipeline!Plannable
  <2>4. row.book \in Pipeline!BookIds /\ script.text = Pipeline!Window(row.command[2])
    BY <1>2, <2>3 DEF RowOK
  <2>5. script \in DirectedBooks
    BY <2>4, WhatStands
  <2>6. /\ me.pc = "planned" /\ me.row = row /\ me.script = script /\ me.job = old.job
        /\ me.limits = old.limits /\ me.approval = old.approval
    BY <1>2 DEF ProcessRecords
  <2>7. me \in ProcessRecords
    BY <1>2, <2>5 DEF ProcessRecords
  <2>8. ContractFor(p, me) = ContractFor(p, old) /\ CastFor(p, me) = CastFor(p, old)
    BY <2>6 DEF ContractFor, CastFor
  <2> HIDE DEF me, old, row, script
  <2>9. ProcessOK(p, me, kBooks, kSigned)
    BY <1>2, <2>3, <2>4, <2>6, <2>8 DEF ProcessOK, Directs, Renders
  <2> QED BY <1>1, <2>1, <2>2, <2>7, <2>9, PipelineReads
<1>4. CASE ~(may /\ Pipeline!Plannable(p, row))
  <2>1. /\ Pipeline!Ends(p)
        /\ kRows' = IF may /\ row.state = "awaiting_review"
                    THEN [kRows EXCEPT ![old.job].state = "failed",
                                       ![old.job].stage = "rendering"]
                    ELSE kRows
    BY <1>4 DEF Pipeline!LoadRender
  <2>2. CASE may /\ row.state = "awaiting_review"
    <3> DEFINE new == [row EXCEPT !.state = "failed", !.stage = "rendering"]
    <3>1. kRows' = [kRows EXCEPT ![old.job] = new]
      BY <1>2, <2>1, <2>2, WhatStands
    <3>2. /\ new \in Rows /\ new.state = "failed" /\ new.stage = "rendering"
          /\ new.attached = row.attached /\ new.book = row.book
          /\ new.command = row.command /\ new.contract = row.contract
      BY <1>2 DEF Rows
    <3> HIDE DEF new
    <3>3. RowOK(new, kBooks, kSigned)
      BY <1>2, <2>2, <3>2 DEF RowOK
    <3>4. kBooks' = kBooks /\ kBooks \in [Pipeline!BookIds -> DirectedBooks]
          /\ SameTexts(kBooks, kBooks')
      BY <1>1, WhatStands, SameBooks
    <3>5. kProcess' = [kProcess EXCEPT ![p] = Pipeline!Idle]
      BY <2>1 DEF Pipeline!Ends
    <3>6. ProcessOK(p, Pipeline!Idle, kBooks', kSigned)
      BY IdleOK
    <3> HIDE DEF old, row
    <3> QED BY <1>1, <1>2, <3>1, <3>2, <3>3, <3>4, <3>5, <3>6, Emptiness, PipelineWrites
  <2>3. CASE ~(may /\ row.state = "awaiting_review")
    <3>1. kRows' = kRows
      BY <2>1, <2>3
    <3> QED BY <1>1, <2>1, <3>1, PipelineEnds
  <2> QED BY <2>2, <2>3
<1> QED BY <1>3, <1>4

LEMMA ClaimsRender ==
  ASSUME PipelineInv, NEW p \in Pipeline!Processes, Pipeline!ClaimRender(p)
  PROVE  PipelineInv'
<1> DEFINE old == kProcess[p]
           row == [old.row EXCEPT !.state = "running", !.stage = "rendering"]
           me == [old EXCEPT !.pc = "speaking"]
<1>1. UNCHANGED <<kLedger, kSigned, kBooks, kOutputs>> /\ old.pc = "planned"
  BY DEF Pipeline!ClaimRender, Pipeline!Tables, Pipeline!At
<1>2. CASE Pipeline!Ends(p) /\ UNCHANGED kRows
  BY <1>1, <1>2, PipelineEnds
<1>3. CASE /\ kRows' = [kRows EXCEPT ![old.job] = row]
           /\ Pipeline!Moves(p, "speaking")
  <2>1. kProcess' = [kProcess EXCEPT ![p] = me]
    BY <1>3, WhatStands DEF Pipeline!Moves
  <2>2. /\ old \in ProcessRecords /\ ProcessOK(p, old, kBooks, kSigned) /\ old.row \in Rows
        /\ old.job \in Pipeline!Jobs /\ old.limits \in Slices
    BY <1>1, WhatStands DEF ProcessRecords
  <2>3. RowOK(old.row, kBooks, kSigned) /\ old.row.state # "absent"
    BY <1>1, <2>2 DEF ProcessOK, Renders
  <2>4. /\ row \in Rows /\ row.state = "running" /\ row.stage = "rendering"
        /\ row.attached = old.row.attached /\ row.book = old.row.book
        /\ row.command = old.row.command /\ row.contract = old.row.contract
    BY <2>2 DEF Rows
  <2>5. /\ me.pc = "speaking" /\ me.row = old.row /\ me.script = old.script
        /\ me.job = old.job /\ me.limits = old.limits /\ me.approval = old.approval
        /\ me \in ProcessRecords
    BY <2>2 DEF ProcessRecords
  <2>6. ContractFor(p, me) = ContractFor(p, old) /\ CastFor(p, me) = CastFor(p, old)
    BY <2>5 DEF ContractFor, CastFor
  <2> HIDE DEF me, row
  <2>7. RowOK(row, kBooks, kSigned)
    BY <2>3, <2>4 DEF RowOK
  <2> HIDE DEF old
  <2>8. ProcessOK(p, me, kBooks, kSigned)
    BY <1>1, <2>2, <2>5, <2>6 DEF ProcessOK, Directs, Renders
  <2>9. kBooks' = kBooks /\ kBooks \in [Pipeline!BookIds -> DirectedBooks]
        /\ SameTexts(kBooks, kBooks')
    BY <1>1, WhatStands, SameBooks
  <2> QED BY <1>1, <1>3, <2>1, <2>2, <2>4, <2>5, <2>7, <2>8, <2>9, PipelineWrites
<1> QED BY <1>2, <1>3 DEF Pipeline!ClaimRender

\* A character that is heard is one of the cast that was signed for the book
LEMMA SignedVoice ==
  ASSUME NEW signed, NEW cast, NEW row, NEW id \in Speakers,
         Pipeline!KnowsProfile(cast, id), row.attached, ~row.contract[1],
         row.contract[2] = Pipeline!GenerationIdentity(cast),
         NEW books, RowOK(row, books, signed)
  PROVE  \E d \in signed :
           /\ d.book = row.book
           /\ \E a \in d.cast : a.speaker = id /\ a.material = Pipeline!VoiceOf(cast, id)
<1>1. id \notin {"none", "narrator", "fallback"}
  BY PipelineAssumption
<1>2. \E a \in cast : a.speaker = id
  BY <1>1 DEF Pipeline!KnowsProfile, Pipeline!CastSpeakers
<1> DEFINE a == CHOOSE b \in cast : b.speaker = id
<1>3. a \in cast /\ a.speaker = id
  BY <1>2
<1>4. Pipeline!VoiceOf(cast, id) = a.material
  BY <1>1 DEF Pipeline!VoiceOf
<1> HIDE DEF a
<1>5. PICK d \in signed \cup {NoCast} :
        /\ d # NoCast => d.book = row.book
        /\ row.contract[2] = Pipeline!GenerationIdentity(d.cast)
  BY DEF RowOK
<1>6. <<a.speaker, a.material, a.aliases>> \in Pipeline!GenerationIdentity(d.cast)
  BY <1>3, <1>5 DEF Pipeline!GenerationIdentity
<1>7. PICK b \in d.cast : <<a.speaker, a.material, a.aliases>> = <<b.speaker, b.material, b.aliases>>
  BY <1>6 DEF Pipeline!GenerationIdentity
<1>8. b.speaker = id /\ b.material = Pipeline!VoiceOf(cast, id)
  BY <1>3, <1>4, <1>7
<1>9. d # NoCast
  BY <1>7, Emptiness
<1> QED BY <1>5, <1>7, <1>8, <1>9

\* The material behind a profile that a cast knows
LEMMA VoiceKnown ==
  ASSUME NEW cast \in SUBSET Pipeline!Assignments, NEW id, Pipeline!KnowsProfile(cast, id)
  PROVE  Pipeline!VoiceOf(cast, id) \in Profiles
<1>1. CASE id = "narrator"
  BY <1>1, PipelineAssumption DEF Pipeline!VoiceOf
<1>2. CASE id = "fallback"
  BY <1>2, PipelineAssumption DEF Pipeline!VoiceOf
<1>3. CASE id \notin {"narrator", "fallback"}
  <2>1. \E b \in cast : b.speaker = id
    BY <1>3 DEF Pipeline!KnowsProfile, Pipeline!CastSpeakers
  <2>2. (CHOOSE b \in cast : b.speaker = id) \in cast
    BY <2>1
  <2>3. \A b \in cast : b.material \in Profiles
    BY DEF Pipeline!Assignments
  <2>4. Pipeline!VoiceOf(cast, id) = (CHOOSE b \in cast : b.speaker = id).material
    BY <1>3 DEF Pipeline!VoiceOf
  <2> QED BY <2>2, <2>3, <2>4
<1> QED BY <1>1, <1>2, <1>3

LEMMA Completes ==
  ASSUME PipelineInv, NEW p \in Pipeline!Processes, Pipeline!Complete(p)
  PROVE  PipelineInv'
<1> DEFINE old == kProcess[p]
           cast == CastFor(p, old)
           row == [old.row EXCEPT !.state = "completed", !.stage = "done"]
           output == [text |-> old.script.text, profile |-> old.script.profile,
                      book |-> old.row.book,
                      voice |-> Pipeline!VoiceOf(cast, old.script.profile),
                      by |-> IF p \in Webs THEN "web" ELSE "command"]
<1>1. /\ UNCHANGED <<kLedger, kSigned, kBooks>> /\ old.pc = "speaking"
      /\ kProcess' = [kProcess EXCEPT ![p] = Pipeline!Idle]
      /\ kRows' = [kRows EXCEPT ![old.job] = row]
      /\ kOutputs' = [kOutputs EXCEPT ![old.job] = output]
  BY CastsOf DEF Pipeline!Complete, Pipeline!At, Pipeline!Ends
<1>2. /\ old \in ProcessRecords /\ ProcessOK(p, old, kBooks, kSigned) /\ old.row \in Rows
      /\ old.script \in DirectedBooks /\ old.job \in Pipeline!Jobs
  BY <1>1, WhatStands DEF ProcessRecords
<1>3. /\ RowOK(old.row, kBooks, kSigned) /\ old.row.attached /\ old.row.state # "absent"
      /\ old.row.contract = ContractFor(p, old)
      /\ Pipeline!KnowsProfile(cast, old.script.profile)
      /\ old.script.text = Pipeline!Window(old.row.command[2])
  BY <1>1, <1>2 DEF ProcessOK, Renders
<1>4. /\ row \in Rows /\ row.state = "completed" /\ row.stage = "done"
      /\ row.attached = old.row.attached /\ row.book = old.row.book
      /\ row.command = old.row.command /\ row.contract = old.row.contract
  BY <1>2 DEF Rows
<1>5. cast \in SUBSET Pipeline!Assignments
  BY <1>2, ProcessCast
<1>6. Pipeline!VoiceOf(cast, old.script.profile) \in Profiles
  BY <1>3, <1>5, VoiceKnown
<1>7. /\ output.text = old.script.text /\ output.profile = old.script.profile
      /\ output.book = old.row.book
      /\ output.voice = Pipeline!VoiceOf(cast, old.script.profile)
      /\ output.by = IF p \in Webs THEN "web" ELSE "command"
  OBVIOUS
<1>8. output \in Outputs
  BY <1>2, <1>6 DEF Outputs, DirectedBooks, Rows
<1> HIDE DEF row, output, cast, old
<1>9. RowOK(row, kBooks, kSigned)
  BY <1>3, <1>4 DEF RowOK
<1>10. ASSUME output.by = "command", output.profile \in Speakers
       PROVE  \E d \in kSigned :
                /\ d.book = output.book
                /\ \E a \in d.cast : a.speaker = output.profile /\ a.material = output.voice
  <2>1. p \notin Webs
    BY <1>7, <1>10
  <2>2. ~old.row.contract[1]
        /\ old.row.contract[2] = Pipeline!GenerationIdentity(cast)
    BY <1>3, <2>1, ContractParts DEF cast
  <2>3. \E d \in kSigned :
          /\ d.book = old.row.book
          /\ \E a \in d.cast : /\ a.speaker = output.profile
                               /\ a.material = Pipeline!VoiceOf(cast, output.profile)
    BY <1>3, <1>7, <1>10, <2>2, SignedVoice
  <2> QED BY <1>7, <2>3
<1>11. OutputOK(row, output, kSigned)
  BY <1>3, <1>4, <1>7, <1>10 DEF OutputOK
<1>12. kBooks' = kBooks /\ kBooks \in [Pipeline!BookIds -> DirectedBooks]
       /\ SameTexts(kBooks, kBooks')
  BY <1>1, WhatStands, SameBooks
<1>13. ProcessOK(p, Pipeline!Idle, kBooks', kSigned) /\ Pipeline!Idle \in ProcessRecords
  BY IdleOK, Emptiness
<1> QED BY <1>1, <1>2, <1>4, <1>8, <1>9, <1>11, <1>12, <1>13, PipelineGoes

LEMMA Fails ==
  ASSUME PipelineInv, NEW p \in Pipeline!Processes, Pipeline!Fail(p)
  PROVE  PipelineInv'
<1> DEFINE old == kProcess[p]
           row == [old.row EXCEPT !.state = "failed",
                     !.stage = IF old.pc = "speaking" THEN "rendering" ELSE @]
<1>1. /\ UNCHANGED <<kLedger, kSigned, kBooks, kOutputs>>
      /\ old.pc \in {"extracting", "directing", "speaking"}
      /\ kProcess' = [kProcess EXCEPT ![p] = Pipeline!Idle]
      /\ kRows' = [kRows EXCEPT ![old.job] = row]
  BY DEF Pipeline!Fail, Pipeline!Tables, Pipeline!At, Pipeline!Ends
<1>2. /\ old \in ProcessRecords /\ ProcessOK(p, old, kBooks, kSigned) /\ old.row \in Rows
      /\ old.job \in Pipeline!Jobs
  BY <1>1, WhatStands DEF ProcessRecords
<1>3. RowOK(old.row, kBooks, kSigned) /\ old.row.state # "absent"
  BY <1>1, <1>2 DEF ProcessOK, Directs, Renders
<1>4. /\ row \in Rows /\ row.state = "failed" /\ row.stage \in {"rendering", old.row.stage}
      /\ row.attached = old.row.attached /\ row.book = old.row.book
      /\ row.command = old.row.command /\ row.contract = old.row.contract
  BY <1>2 DEF Rows
<1> HIDE DEF row
<1>5. RowOK(row, kBooks, kSigned)
  BY <1>3, <1>4 DEF RowOK
<1>6. kBooks' = kBooks /\ kBooks \in [Pipeline!BookIds -> DirectedBooks]
      /\ SameTexts(kBooks, kBooks')
  BY <1>1, WhatStands, SameBooks
<1>7. ProcessOK(p, Pipeline!Idle, kBooks', kSigned) /\ Pipeline!Idle \in ProcessRecords
  BY IdleOK, Emptiness
<1> HIDE DEF old
<1> QED BY <1>1, <1>2, <1>4, <1>5, <1>6, <1>7, PipelineWrites

\* Every step of the commands and of the web process beside them keeps the invariant
LEMMA PipelineStep == PipelineInv /\ [Pipeline!PipelineNext]_pipelineVars => PipelineInv'
<1> SUFFICES ASSUME PipelineInv, [Pipeline!PipelineNext]_pipelineVars
             PROVE  PipelineInv'
  OBVIOUS
<1>1. ASSUME NEW d \in Drafts, Pipeline!Approve(d) PROVE PipelineInv'
  BY <1>1, Approves
<1>2. ASSUME NEW op \in Pipeline!Operations,
             \/ \E p \in Commands, job \in CommandJobs, limits \in Asked :
                  Pipeline!LaunchCommand(p, op, job, limits)
             \/ \E p \in Webs, job \in Pipeline!Jobs \ CommandJobs : Pipeline!LaunchWeb(p, op, job)
      PROVE  PipelineInv'
  BY <1>2, CommandsLaunch, WebsLaunch
<1>3. ASSUME NEW p \in Pipeline!Processes PROVE
        /\ Pipeline!Dispatch(p) => PipelineInv'
        /\ Pipeline!LoadDirection(p) => PipelineInv'
        /\ Pipeline!ClaimDirection(p) => PipelineInv'
        /\ Pipeline!Extract(p) => PipelineInv'
        /\ Pipeline!Direct(p) => PipelineInv'
        /\ Pipeline!Confirm(p) => PipelineInv'
  BY Dispatches, LoadsDirection, ClaimsDirection, Extracts, Directing, Confirms
<1>4. ASSUME NEW p \in Pipeline!Processes PROVE
        /\ Pipeline!LoadRender(p) => PipelineInv'
        /\ Pipeline!ClaimRender(p) => PipelineInv'
        /\ Pipeline!Complete(p) => PipelineInv'
        /\ Pipeline!Fail(p) => PipelineInv'
  BY LoadsRender, ClaimsRender, Completes, Fails
<1>5. ASSUME NEW p \in Pipeline!Processes, Pipeline!Crash(p) PROVE PipelineInv'
  <2>1. Pipeline!Ends(p) /\ UNCHANGED <<kLedger, kSigned, kRows, kBooks, kOutputs>>
    BY <1>5 DEF Pipeline!Crash, Pipeline!Tables
  <2> QED BY <2>1, PipelineEnds
<1>6. ASSUME UNCHANGED pipelineVars PROVE PipelineInv'
  BY <1>6 DEF pipelineVars, PipelineInv, PipelineTyped, LedgerOK
<1> QED BY <1>1, <1>2, <1>3, <1>4, <1>5, <1>6 DEF Pipeline!PipelineNext

-----------------------------------------------------------------------------
(* Who is told which material is shared                                    *)

\* One count of a set
LEMMA SameCount == \A S : Pipeline!Cardinality(S) = Cardinality(S)
BY DEF Pipeline!Cardinality, Cardinality

(* Those of a canonical cast who have the material of one are that one     *)
(* alone, who names no group, or all who name its group.                   *)
LEMMA Sharers ==
  ASSUME NEW cast, Pipeline!Canonical(cast), NEW a \in cast
  PROVE  LET sharers == Pipeline!With(cast, a.material)
         IN /\ a \in sharers
            /\ sharers = {a} => a.group = Exclusive
            /\ sharers # {a} => /\ a.group # Exclusive
                                /\ \A b \in sharers : b.group = a.group
                                /\ {b \in cast : b.group = a.group} = sharers
<1> DEFINE sharers == Pipeline!With(cast, a.material)
<1>1. sharers = {b \in cast : b.material = a.material}
  BY DEF Pipeline!With
<1>2. IF sharers = {a} THEN a.group = Exclusive
      ELSE a.group # Exclusive /\ \A b \in sharers : b.group = a.group
  BY DEF Pipeline!Canonical, Pipeline!SharersNameTheGroup
<1>3. \A b \in cast : a.group = b.group /\ a.group # Exclusive => a.material = b.material
  BY DEF Pipeline!Canonical, Pipeline!GroupsNameOneMaterial
<1> HIDE DEF sharers
<1>4. a \in sharers
  BY <1>1
<1>5. ASSUME sharers # {a} PROVE {b \in cast : b.group = a.group} = sharers
  BY <1>1, <1>2, <1>3, <1>5
<1> QED BY <1>2, <1>4, <1>5 DEF sharers

\* Each who has a voice is a speaker of its own
LEMMA SpeakersCount ==
  ASSUME NEW cast, Pipeline!OneVoiceEach(cast), IsFiniteSet(cast), NEW some \in SUBSET cast
  PROVE  Cardinality({a.speaker : a \in some}) = Cardinality(some)
<1> DEFINE names == {a.speaker : a \in some}
           name == [a \in some |-> a.speaker]
<1>1. IsFiniteSet(some)
  BY FS_Subset
<1>2. name \in Surjection(some, names)
  BY DEF Surjection
<1>3. name \in Injection(some, names)
  <2>1. \A a, b \in some : name[a] = name[b] => a = b
    BY DEF Pipeline!OneVoiceEach
  <2> QED BY <2>1 DEF Injection, IsInjective
<1> QED BY <1>1, <1>2, <1>3, FS_Surjection

LEMMA TwoOrMore ==
  ASSUME NEW S, IsFiniteSet(S)
  PROVE  /\ \A a \in S : S # {a} => Cardinality(S) > 1
         /\ Cardinality(S) > 1 => S # {} /\ \A a : S # {a}
<1>1. Cardinality(S) \in Nat
  BY FS_CardinalityType
<1>2. ASSUME NEW a \in S, S # {a} PROVE Cardinality(S) > 1
  <2>1. Cardinality(S) # 0
    BY FS_EmptySet
  <2>2. Cardinality(S) # 1
    <3> SUFFICES ASSUME Cardinality(S) = 1 PROVE FALSE
      OBVIOUS
    <3>1. PICK b : S = {b}
      BY FS_Singleton
    <3> QED BY <1>2, <3>1
  <2> QED BY <1>1, <2>1, <2>2
<1>3. ASSUME Cardinality(S) > 1 PROVE S # {} /\ \A a : S # {a}
  BY <1>3, FS_EmptySet, FS_Singleton
<1> QED BY <1>2, <1>3

(* What a signer is told of a canonical cast is what a run will report.    *)
LEMMA TellsSharing ==
  ASSUME NEW cast \in SUBSET Pipeline!Assignments, IsFiniteSet(cast), Pipeline!Canonical(cast)
  PROVE  LET told == Pipeline!SharedVoiceMaterialGroups(cast)
         IN /\ \A a, b \in cast : a # b /\ a.material = b.material =>
                 \E g \in told : {a.speaker, b.speaker} \subseteq g.speakers
            /\ Pipeline!SharedMaterialGroups(cast) =
                 {[group |-> g.group, material |-> g.material,
                   count |-> Cardinality(g.speakers)] : g \in told}
<1> DEFINE told == Pipeline!SharedVoiceMaterialGroups(cast)
           With(m) == Pipeline!With(cast, m)
           First(m) == CHOOSE a \in With(m) : TRUE
           Told(m) == [group |-> First(m).group, material |-> m,
                       speakers |-> {a.speaker : a \in With(m)}]
           shared == {m \in Profiles : Cardinality(With(m)) > 1}
           Named(a) == {b \in cast : b.group = a.group}
           Report(a) == [group |-> a.group, material |-> a.material,
                         count |-> Cardinality(Named(a))]
           reported == {a \in cast : a.group # Exclusive /\ Cardinality(Named(a)) > 1}
           Line(g) == [group |-> g.group, material |-> g.material,
                       count |-> Cardinality(g.speakers)]
<1>1. told = {Told(m) : m \in shared}
  BY SameCount DEF Pipeline!SharedVoiceMaterialGroups
<1>2. Pipeline!SharedMaterialGroups(cast) = {Report(a) : a \in reported}
  BY SameCount DEF Pipeline!SharedMaterialGroups
<1>3. ASSUME NEW m
      PROVE  /\ With(m) \subseteq cast /\ IsFiniteSet(With(m))
             /\ \A a \in cast : a \in With(m) <=> a.material = m
  <2>1. With(m) = {a \in cast : a.material = m}
    BY DEF Pipeline!With
  <2>2. With(m) \in SUBSET cast
    BY <2>1
  <2>3. IsFiniteSet(With(m))
    BY <2>2, FS_Subset
  <2> QED BY <2>1, <2>2, <2>3
<1>4. ASSUME NEW m PROVE Cardinality({a.speaker : a \in With(m)}) = Cardinality(With(m))
  <2>1. Pipeline!OneVoiceEach(cast)
    BY DEF Pipeline!Canonical
  <2>2. With(m) \in SUBSET cast
    BY <1>3
  <2> HIDE DEF With
  <2> QED BY <2>1, <2>2, SpeakersCount
<1>5. ASSUME NEW a \in cast
      PROVE  /\ a \in With(a.material) /\ a.material \in Profiles
             /\ With(a.material) = {a} => a.group = Exclusive
             /\ With(a.material) # {a} => /\ a.group # Exclusive
                                          /\ \A b \in With(a.material) : b.group = a.group
                                          /\ Named(a) = With(a.material)
  <2>1. a.material \in Profiles
    BY DEF Pipeline!Assignments
  <2> QED BY <2>1, Sharers
<1> HIDE DEF With, Named
<1>6. ASSUME NEW a, NEW b, a \in cast, b \in cast, a # b, a.material = b.material
      PROVE  \E g \in told : {a.speaker, b.speaker} \subseteq g.speakers
  <2> DEFINE m == a.material
  <2>1. a \in With(m) /\ b \in With(m) /\ m \in Profiles
    BY <1>5, <1>6
  <2>2. With(m) # {a}
    BY <1>6, <2>1
  <2>3. m \in shared
    BY <1>3, <2>1, <2>2, TwoOrMore
  <2>4. Told(m) \in told
    BY <1>1, <2>3
  <2>5. {a.speaker, b.speaker} \subseteq Told(m).speakers
    BY <2>1
  <2> QED BY <2>4, <2>5
<1>7. ASSUME NEW m \in shared
      PROVE  /\ First(m) \in reported /\ Report(First(m)) = Line(Told(m))
  <2>1. With(m) # {} /\ \A a : With(m) # {a}
    BY <1>3, <1>7, TwoOrMore
  <2>2. First(m) \in With(m)
    BY <2>1
  <2> DEFINE a == First(m)
  <2>3. a \in cast /\ a.material = m
    BY <1>3, <2>2
  <2> HIDE DEF a
  <2>4. a.group # Exclusive /\ Named(a) = With(m)
    BY <1>5, <2>1, <2>3
  <2>5. a \in reported
    BY <1>7, <2>3, <2>4
  <2>6. Report(a) = [group |-> a.group, material |-> m, count |-> Cardinality(With(m))]
    BY <2>3, <2>4
  <2>7. Line(Told(m)) = [group |-> a.group, material |-> m, count |-> Cardinality(With(m))]
    BY <1>4 DEF a
  <2> QED BY <2>5, <2>6, <2>7 DEF a
<1>8. ASSUME NEW a \in reported
      PROVE  a.material \in shared /\ Line(Told(a.material)) = Report(a)
  <2> DEFINE m == a.material
  <2>1. a \in cast /\ a.group # Exclusive /\ Cardinality(Named(a)) > 1
    BY <1>8
  <2>2. /\ a \in With(m) /\ m \in Profiles /\ Named(a) = With(m)
        /\ \A b \in With(m) : b.group = a.group
    BY <1>5, <2>1
  <2>3. m \in shared
    BY <2>1, <2>2
  <2>4. First(m) \in With(m)
    BY <2>2
  <2>5. First(m).group = a.group
    BY <2>2, <2>4
  <2>6. Line(Told(m)) = [group |-> a.group, material |-> m, count |-> Cardinality(With(m))]
    BY <1>4, <2>5
  <2> QED BY <2>2, <2>3, <2>6
<1> HIDE DEF Told, First, Report, Line, shared, reported
<1>9. {Report(a) : a \in reported} = {Line(Told(m)) : m \in shared}
  BY <1>7, <1>8
<1>10. {Line(g) : g \in told} = {Line(Told(m)) : m \in shared}
  BY <1>1
<1> QED BY <1>2, <1>6, <1>9, <1>10 DEF Line

-----------------------------------------------------------------------------
(* What is agreed on any workspace                                         *)

LEMMA ToldOfLedger == PipelineInv => Pipeline!SharingTold
<1> SUFFICES ASSUME PipelineInv PROVE Pipeline!SharingTold
  OBVIOUS
<1> DEFINE cast == kLedger.cast
<1>1. CASE kLedger = NoCast
  <2>1. cast = {}
    BY <1>1, Emptiness
  <2>2. \A m : Pipeline!With({}, m) = {}
    BY DEF Pipeline!With
  <2>3. Pipeline!Cardinality({}) = 0 /\ ~(0 > 1)
    BY SameCount, FS_EmptySet
  <2>4. Pipeline!SharedVoiceMaterialGroups({}) = {}
    BY <2>2, <2>3 DEF Pipeline!SharedVoiceMaterialGroups
  <2>5. Pipeline!SharedMaterialGroups({}) = {}
    BY DEF Pipeline!SharedMaterialGroups
  <2> HIDE DEF cast
  <2> QED BY <2>1, <2>4, <2>5 DEF Pipeline!SharingTold, cast
<1>2. CASE kLedger # NoCast
  <2>1. kLedger \in Drafts /\ Pipeline!Approvable(cast)
    BY <1>2 DEF PipelineInv, LedgerOK, PipelineTyped
  <2>2. cast \in SUBSET Pipeline!Assignments /\ IsFiniteSet(cast)
    BY <2>1, PipelineAssumption
  <2>3. Pipeline!Canonical(cast)
    BY <2>1 DEF Pipeline!Approvable
  <2> HIDE DEF cast
  <2> QED BY <2>2, <2>3, TellsSharing, SameCount DEF Pipeline!SharingTold, cast
<1> QED BY <1>1, <1>2

LEMMA SpokenAndKept ==
  PipelineInv => Pipeline!SpokenAsSigned /\ Pipeline!WindowAsAsked
<1> SUFFICES ASSUME PipelineInv PROVE Pipeline!SpokenAsSigned /\ Pipeline!WindowAsAsked
  OBVIOUS
<1>1. \A j \in Pipeline!Jobs :
        RowOK(kRows[j], kBooks, kSigned) /\ OutputOK(kRows[j], kOutputs[j], kSigned)
  BY DEF PipelineInv
<1>2. Pipeline!SpokenAsSigned
  BY <1>1 DEF OutputOK, Pipeline!SpokenAsSigned
<1>3. Pipeline!WindowAsAsked
  BY <1>1 DEF RowOK, OutputOK, Pipeline!WindowAsAsked
<1> QED BY <1>2, <1>3

\* The workspace agrees with each of its two parts
LEMMA AgreedConsent == AgreedSpec => Consent!Spec
<1>1. AgreedInit => Consent!Init
  BY DEF AgreedInit
<1>2. [AgreedNext]_agreedVars => [Consent!Next]_(Consent!vars)
  BY DEF AgreedNext, agreedVars, consentVars, Consent!vars, Consent!catalog
<1> QED BY <1>1, <1>2, PTL DEF AgreedSpec, Consent!Spec

(* What a command has read, and what the tables say of every job, agrees   *)
(* with a cast that was signed for its book and with the window it was     *)
(* asked for, in every state (DirectAudiobook, RenderAudiobook).           *)
THEOREM AgreedPipeline == AgreedSpec => []PipelineInv
<1>1. AgreedInit => PipelineInv
  BY PipelineBegins DEF AgreedInit
<1>2. PipelineInv /\ [AgreedNext]_agreedVars => PipelineInv'
  <2>1. [AgreedNext]_agreedVars => [Pipeline!PipelineNext]_pipelineVars
    BY DEF AgreedNext, agreedVars
  <2> QED BY <2>1, PipelineStep
<1> QED BY <1>1, <1>2, PTL DEF AgreedSpec

(* No decision on a line is carried over to another reading, and no line   *)
(* is authorized and withdrawn at once; every character is spoken with     *)
(* material that was signed for it in that very book, of the window that   *)
(* was asked for, and whoever signed was told what is shared               *)
(* (reconcileUnlocked, saveCastApproval, RenderAudiobook).                      *)
THEOREM VoicesAreAgreed ==
  ASSUME ConsentAssumption
  PROVE  AgreedSpec => []NothingCarriedOver
<1>1. AgreedSpec => [](Consent!TypeOK /\ Consent!NothingCarriedOver /\ Consent!Unambiguous)
  BY AgreedConsent, TypeCorrect, NeverCarriedOver, NeverAmbiguous, PTL
<1>2. PipelineInv => Pipeline!SpokenAsSigned /\ Pipeline!WindowAsAsked /\ Pipeline!SharingTold
  BY SpokenAndKept, ToldOfLedger
<1>3. /\ Consent!TypeOK /\ Consent!NothingCarriedOver /\ Consent!Unambiguous
      /\ PipelineInv
      => NothingCarriedOver
  BY <1>2 DEF NothingCarriedOver
<1> QED BY <1>1, <1>3, AgreedPipeline, PTL

(* The same of the decisions for a whole book, beside whatever the         *)
(* commands do (createBookFallbackGrant, reconcileUnlocked).               *)
THEOREM AgreedWhole ==
  ASSUME ConsentAssumption
  PROVE  AgreedSpec => DecidedWhole
<1> QED BY AgreedConsent, BookDecidedWhole, PTL DEF DecidedWhole
=============================================================================
