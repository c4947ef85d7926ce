-------------------------- MODULE ReviewAPIProofs --------------------------
(***************************************************************************)
(* What the owner of a review is told, for any number of clients reading   *)
(* while the review goes on, every set of projects and access rights, and  *)
(* every set of findings.                                                  *)
(***************************************************************************)
EXTENDS ReviewAPI, ReviewStoreProofs

-----------------------------------------------------------------------------
(* The order of the findings in a report.                                  *)

\* A set of numbers that is not empty has a least element.
LEMMA LeastNumber ==
    ASSUME NEW T \in SUBSET Nat, T # {}
    PROVE  \E m \in T : \A k \in T : m <= k
<1> DEFINE U == {0..k : k \in T}
<1>1. IsWellFoundedOn(StrictSubsetOrdering(Nat), FiniteSubsetsOf(Nat))
  BY FS_StrictSubsetOrderingWellFounded
<1>2. U \subseteq FiniteSubsetsOf(Nat)
  <2>1. ASSUME NEW k \in T PROVE 0..k \in SUBSET Nat /\ IsFiniteSet(0..k)
    BY FS_Interval
  <2> QED
    BY <2>1 DEF FiniteSubsetsOf
<1>3. U # {}
  OBVIOUS
<1> HIDE DEF U
<1>4. PICK x \in U : \A y \in U : ~(<<y, x>> \in StrictSubsetOrdering(Nat))
  BY <1>1, <1>2, <1>3, WFMin
<1>5. PICK m \in T : x = 0..m
  BY DEF U
<1>6. ASSUME NEW k \in T, k < m PROVE FALSE
  <2>1. 0..k \in U
    BY DEF U
  <2>2. /\ 0..k \in SUBSET Nat /\ 0..m \in SUBSET Nat
        /\ 0..k \subseteq 0..m /\ m \in 0..m /\ m \notin 0..k
    BY <1>6
  <2>3. <<0..k, 0..m>> \in StrictSubsetOrdering(Nat)
    BY <2>2 DEF StrictSubsetOrdering
  <2> QED
    BY <1>4, <1>5, <2>1, <2>3
<1> QED
  BY <1>6

\* A role is found again from its place in the canonical order.
LEMMA RoleOrderRight ==
    ASSUME NEW r \in Role
    PROVE  RoleOrder(r) \in Nat /\ CanonicalRoles[RoleOrder(r)] = r
<1>1. \E i \in DOMAIN CanonicalRoles : CanonicalRoles[i] = r
  BY DEF Role
<1>2. RoleOrder(r) \in DOMAIN CanonicalRoles /\ CanonicalRoles[RoleOrder(r)] = r
  BY <1>1 DEF RoleOrder
<1>3. DOMAIN CanonicalRoles = 1..Len(CanonicalRoles) /\ Len(CanonicalRoles) \in Nat
  BY StoreConstants
<1> QED
  BY <1>2, <1>3

\* What a finding refers to first is a number: its least citation, or the
\* anchor that every omission has.
LEMMA PrimaryRefIsNumber ==
    ASSUME NEW f \in Finding
    PROVE  PrimaryRef(f) \in Nat
<1>1. f \in FindingRow /\ f.refs \in SUBSET Nat
  BY APIConstants DEF FindingRow
<1>2. CASE f.refs = {}
  BY <1>2, APIConstants DEF PrimaryRef
<1>3. CASE f.refs # {}
  <2>1. \E u \in f.refs : \A v \in f.refs : u <= v
    BY <1>1, <1>3, LeastNumber
  <2> QED
    BY <1>1, <1>3, <2>1 DEF PrimaryRef
<1> QED
  BY <1>2, <1>3

\* Of two different keys one comes first.
LEMMA KeysComparable ==
    ASSUME NEW p1 \in Nat, NEW p2 \in Nat, NEW p3 \in Nat, NEW p4 \in Nat, NEW p5 \in Nat,
           NEW q1 \in Nat, NEW q2 \in Nat, NEW q3 \in Nat, NEW q4 \in Nat, NEW q5 \in Nat,
           <<p1, p2, p3, p4, p5>> # <<q1, q2, q3, q4, q5>>
    PROVE  \/ Lexicographic(<<p1, p2, p3, p4, p5>>, <<q1, q2, q3, q4, q5>>)
           \/ Lexicographic(<<q1, q2, q3, q4, q5>>, <<p1, p2, p3, p4, p5>>)
<1> DEFINE p == <<p1, p2, p3, p4, p5>>
           q == <<q1, q2, q3, q4, q5>>
<1>1. /\ Len(p) = 5 /\ Len(q) = 5
      /\ p[1] = p1 /\ p[2] = p2 /\ p[3] = p3 /\ p[4] = p4 /\ p[5] = p5
      /\ q[1] = q1 /\ q[2] = q2 /\ q[3] = q3 /\ q[4] = q4 /\ q[5] = q5
  OBVIOUS
<1>2. \E i \in 1..5 : p[i] # q[i] /\ \A j \in 1..(i - 1) : p[j] = q[j]
  <2>1. CASE p1 # q1
    BY <1>1, <2>1
  <2>2. CASE p1 = q1 /\ p2 # q2
    BY <1>1, <2>2
  <2>3. CASE p1 = q1 /\ p2 = q2 /\ p3 # q3
    BY <1>1, <2>3
  <2>4. CASE p1 = q1 /\ p2 = q2 /\ p3 = q3 /\ p4 # q4
    BY <1>1, <2>4
  <2>5. CASE p1 = q1 /\ p2 = q2 /\ p3 = q3 /\ p4 = q4 /\ p5 # q5
    BY <1>1, <2>5
  <2> QED
    BY <2>1, <2>2, <2>3, <2>4, <2>5
<1>3. \A i \in 1..5 : p[i] \in Nat /\ q[i] \in Nat
  BY <1>1
<1> HIDE DEF p, q
<1>4. PICK i \in 1..5 : p[i] # q[i] /\ \A j \in 1..(i - 1) : p[j] = q[j]
  BY <1>2
<1>5. p[i] < q[i] \/ q[i] < p[i]
  BY <1>3, <1>4
<1>6. Lexicographic(p, q) \/ Lexicographic(q, p)
  BY <1>1, <1>4, <1>5 DEF Lexicographic
<1> QED
  BY <1>6 DEF p, q

\* findingLess tells any two findings apart that differ in role or id.
LEMMA FindingsComparable ==
    ASSUME NEW a, NEW b, a.role \in Role, b.role \in Role,
           a.finding \in Finding, b.finding \in Finding,
           a.role # b.role \/ a.finding.id # b.finding.id
    PROVE  FindingLess(a, b) \/ FindingLess(b, a)
<1>1. a.finding \in FindingRow /\ b.finding \in FindingRow
  BY APIConstants
<1>2. /\ a.finding.severity \in Nat /\ a.finding.category \in Nat /\ a.finding.id \in Nat
      /\ b.finding.severity \in Nat /\ b.finding.category \in Nat /\ b.finding.id \in Nat
  BY <1>1 DEF FindingRow
<1>3. PrimaryRef(a.finding) \in Nat /\ PrimaryRef(b.finding) \in Nat
  BY PrimaryRefIsNumber
<1>4. /\ RoleOrder(a.role) \in Nat /\ RoleOrder(b.role) \in Nat
      /\ RoleOrder(a.role) = RoleOrder(b.role) => a.role = b.role
  BY RoleOrderRight
<1>5. RoleOrder(a.role) # RoleOrder(b.role) \/ a.finding.id # b.finding.id
  BY <1>4
<1>6. SortKey(a) # SortKey(b)
  BY <1>5 DEF SortKey
<1> QED
  BY <1>2, <1>3, <1>4, <1>6, KeysComparable DEF FindingLess, SortKey

\* A list of all members of a set has each of them somewhere.
LEMMA ListedSomewhere ==
    ASSUME NEW S, IsFiniteSet(S), NEW l \in SetToSeqs(S), NEW x \in S
    PROVE  \E i \in 1..Cardinality(S) : l[i] = x
<1> DEFINE n == Cardinality(S)
<1>1. n \in Nat
  BY FS_CardinalityType
<1>2. IsFiniteSet(1..n) /\ Cardinality(1..n) = n
  BY <1>1, FS_Interval
<1>3. l \in Injection(1..n, S)
  BY DEF SetToSeqs, Injection, IsInjective
<1>4. l \in Surjection(1..n, S)
  BY <1>2, <1>3, FS_Injection
<1> QED
  BY <1>4 DEF Surjection

\* Findings that findingLess tells apart can be sorted in one way only.
LEMMA OneOrder ==
    ASSUME NEW S, IsFiniteSet(S),
           \A a, b \in S : a # b => FindingLess(a, b) \/ FindingLess(b, a),
           NEW l \in Sorted(S), NEW m \in Sorted(S)
    PROVE  l = m
<1> DEFINE n == Cardinality(S)
           D == {i \in 1..n : l[i] # m[i]}
<1>1. n \in Nat
  BY FS_CardinalityType
<1>2. l \in SetToSeqs(S) /\ m \in SetToSeqs(S)
  BY DEF Sorted
<1>3. /\ l \in [1..n -> S] /\ m \in [1..n -> S]
      /\ \A i, j \in 1..n : i # j => l[i] # l[j] /\ m[i] # m[j]
  BY <1>2 DEF SetToSeqs
<1>4. Len(l) = n /\ Len(m) = n
  BY <1>1, <1>3
<1>5. \A i, j \in 1..n : i < j => ~FindingLess(l[j], l[i]) /\ ~FindingLess(m[j], m[i])
  BY <1>4 DEF Sorted
<1>6. ASSUME D # {} PROVE FALSE
  <2>1. D \in SUBSET Nat
    BY <1>1
  <2>2. PICK i \in D : \A k \in D : i <= k
    BY <1>6, <2>1, LeastNumber
  <2>3. i \in 1..n /\ l[i] # m[i] /\ l[i] \in S /\ m[i] \in S
    BY <1>3, <2>2
  <2>4. \A k \in 1..n : k < i => l[k] = m[k]
    BY <1>1, <2>2
  <2>5. PICK j \in 1..n : m[j] = l[i]
    BY <1>2, <2>3, ListedSomewhere
  <2>6. PICK k \in 1..n : l[k] = m[i]
    BY <1>2, <2>3, ListedSomewhere
  <2>7. i < j
    BY <1>1, <1>3, <2>3, <2>4, <2>5
  <2>8. i < k
    BY <1>1, <1>3, <2>3, <2>4, <2>6
  <2>9. ~FindingLess(l[i], m[i]) /\ ~FindingLess(m[i], l[i])
    BY <1>5, <2>3, <2>5, <2>6, <2>7, <2>8
  <2> QED
    BY <2>3, <2>9
<1>7. \A i \in 1..n : l[i] = m[i]
  BY <1>6
<1> HIDE DEF n
<1>8. [i \in 1..n |-> l[i]] = [i \in 1..n |-> m[i]]
  BY <1>7, Zenon
<1>9. l = [i \in 1..n |-> l[i]] /\ m = [i \in 1..n |-> m[i]]
  BY <1>3, Zenon
<1> QED
  BY <1>8, <1>9, Zenon

-----------------------------------------------------------------------------
(* The findings in the tables.                                             *)

\* The findings of a role are finitely many, with an id each: what
\* validatePublishSuccessParams and the primary key of the table see to.
FindingsStored ==
    \A s \in Session, r \in Role :
        IsFiniteSet(findings[s][r]) /\ DistinctIds(findings[s][r])

\* The members of StoredFindings.
LEMMA StoredMember ==
    ASSUME NEW s \in Session, NEW rf
    PROVE  rf \in StoredFindings(s) <=>
             \E r \in CompletedRoles(role_runs[s]) : \E f \in findings[s][r] :
                rf = [role |-> r, finding |-> f]
  BY DEF StoredFindings

\* There are finitely many findings to report.
LEMMA StoredFinite ==
    ASSUME FindingsStored, NEW s \in Session
    PROVE  IsFiniteSet(StoredFindings(s))
<1> DEFINE R == CompletedRoles(role_runs[s])
           Of(r) == {[role |-> r, finding |-> f] : f \in findings[s][r]}
           All == {Of(r) : r \in R}
<1>1. IsFiniteSet(R)
  BY RoleFinite, FS_Subset DEF CompletedRoles
<1>2. ASSUME NEW r \in R PROVE IsFiniteSet(Of(r))
  <2> DEFINE g == [f \in findings[s][r] |-> [role |-> r, finding |-> f]]
  <2>1. IsFiniteSet(findings[s][r])
    BY <1>2 DEF FindingsStored, CompletedRoles
  <2>2. g \in Surjection(findings[s][r], Of(r))
    BY DEF Surjection
  <2> QED
    BY <2>1, <2>2, FS_Surjection
<1>3. IsFiniteSet(All)
  <2> DEFINE g == [r \in R |-> Of(r)]
  <2> HIDE DEF Of, R
  <2>1. g \in Surjection(R, All)
    BY DEF Surjection
  <2> QED
    BY <1>1, <2>1, FS_Surjection
<1>4. \A T \in All : IsFiniteSet(T)
  BY <1>2
<1>5. IsFiniteSet(UNION All)
  BY <1>3, <1>4, FS_UNION
<1> QED
  BY <1>5 DEF StoredFindings

\* findingLess tells all of them apart.
LEMMA StoredComparable ==
    ASSUME FindingsStored, findings \in [Session -> [Role -> SUBSET Finding]],
           NEW s \in Session, NEW a \in StoredFindings(s), NEW b \in StoredFindings(s), a # b
    PROVE  FindingLess(a, b) \/ FindingLess(b, a)
<1>1. PICK q \in Role, f \in Finding :
         f \in findings[s][q] /\ a = [role |-> q, finding |-> f]
  BY StoredMember DEF CompletedRoles
<1>2. PICK r \in Role, g \in Finding :
         g \in findings[s][r] /\ b = [role |-> r, finding |-> g]
  BY StoredMember DEF CompletedRoles
<1>3. q # r \/ f.id # g.id
  BY <1>1, <1>2 DEF FindingsStored, DistinctIds
<1> QED
  BY <1>1, <1>2, <1>3, FindingsComparable

\* So a report lists them in one order only.
LEMMA ReportOrder ==
    ASSUME FindingsStored, findings \in [Session -> [Role -> SUBSET Finding]],
           NEW s \in Session, NEW list \in Sorted(StoredFindings(s))
    PROVE  Sorted(StoredFindings(s)) = {list}
<1>1. IsFiniteSet(StoredFindings(s))
  BY StoredFinite
<1>2. \A a, b \in StoredFindings(s) : a # b => FindingLess(a, b) \/ FindingLess(b, a)
  BY StoredComparable
<1>3. ASSUME NEW m \in Sorted(StoredFindings(s)) PROVE m = list
  BY <1>1, <1>2, OneOrder
<1> QED
  BY <1>3

\* The rows a report's findings query returns: citations are read later.
Uncited(s) == {[rf EXCEPT !.finding.refs = {}] : rf \in StoredFindings(s)}

\* Taking the citations out and putting them back changes nothing else.
LEMMA Recited ==
    ASSUME NEW r, NEW f \in FindingRow
    PROVE  LET rf == [role |-> r, finding |-> f]
               bare == [rf EXCEPT !.finding.refs = {}]
           IN  /\ bare.role = r /\ bare.finding.id = f.id
               /\ [bare EXCEPT !.finding.refs = f.refs] = rf
<1> DEFINE rf == [role |-> r, finding |-> f]
           bare == [rf EXCEPT !.finding.refs = {}]
           g == [f EXCEPT !.refs = {}]
<1>1. [g EXCEPT !.refs = f.refs] = f /\ g.id = f.id
  BY DEF FindingRow
<1> HIDE DEF g
<1>2. bare = [role |-> r, finding |-> g]
  BY DEF g
<1>3. [[role |-> r, finding |-> g] EXCEPT !.finding.refs = f.refs]
        = [role |-> r, finding |-> [g EXCEPT !.refs = f.refs]]
  OBVIOUS
<1> HIDE DEF rf, bare
<1>4. [bare EXCEPT !.finding.refs = f.refs] = rf
  BY <1>1, <1>2, <1>3 DEF rf
<1>5. bare.role = r /\ bare.finding.id = f.id
  BY <1>1, <1>2
<1> QED
  BY <1>4, <1>5 DEF rf, bare

\* The citations the second query returns are those of the finding, which it
\* looks up by role and id.
LEMMA CitationsRestored ==
    ASSUME FindingsStored, findings \in [Session -> [Role -> SUBSET Finding]],
           NEW s \in Session, NEW rf \in StoredFindings(s)
    PROVE  LET bare == [rf EXCEPT !.finding.refs = {}]
           IN  /\ bare.role = rf.role
               /\ [bare EXCEPT !.finding.refs = RefsOf(s, bare)] = rf
<1> DEFINE bare == [rf EXCEPT !.finding.refs = {}]
<1>1. PICK r \in CompletedRoles(role_runs[s]), f \in Finding :
         f \in findings[s][r] /\ rf = [role |-> r, finding |-> f]
  BY StoredMember DEF CompletedRoles
<1>2. r \in Role /\ f \in FindingRow
  BY APIConstants DEF CompletedRoles
<1>3. rf.role = r /\ rf.finding = f
  BY <1>1
<1>4. /\ bare.role = r /\ bare.finding.id = f.id
      /\ [bare EXCEPT !.finding.refs = f.refs] = rf
  BY <1>1, <1>2, Recited
<1> HIDE DEF bare
<1>5. {sf \in StoredFindings(s) : sf.role = bare.role /\ sf.finding.id = bare.finding.id} = {rf}
  <2>1. ASSUME NEW sf \in StoredFindings(s), sf.role = r, sf.finding.id = f.id PROVE sf = rf
    <3>1. PICK q \in CompletedRoles(role_runs[s]), g \in Finding :
             g \in findings[s][q] /\ sf = [role |-> q, finding |-> g]
      BY StoredMember DEF CompletedRoles
    <3>2. q = r /\ g.id = f.id
      BY <2>1, <3>1
    <3>3. DistinctIds(findings[s][r])
      BY <1>2 DEF FindingsStored
    <3>4. g = f
      BY <1>1, <3>1, <3>2, <3>3 DEF DistinctIds
    <3> QED
      BY <1>1, <3>1, <3>2, <3>4
  <2> QED
    BY <1>3, <1>4, <2>1
<1>6. RefsOf(s, bare) = UNION {rf.finding.refs}
  BY <1>5 DEF RefsOf
<1>7. RefsOf(s, bare) = f.refs
  BY <1>3, <1>6
<1> QED
  BY <1>3, <1>4, <1>7 DEF bare

\* The report's third and fourth query together return all of the findings.
LEMMA ReportComplete ==
    ASSUME FindingsStored, findings \in [Session -> [Role -> SUBSET Finding]],
           NEW s \in Session, NEW views, views = RoleViews(s)
    PROVE  {[rf EXCEPT !.finding.refs = RefsOf(s, rf)] :
               rf \in {rf \in Uncited(s) : views[rf.role].status = "complete"}}
             = StoredFindings(s)
<1>1. ASSUME NEW rf \in StoredFindings(s) PROVE views[rf.role].status = "complete"
  BY StoredMember DEF CompletedRoles, RoleViews
<1>2. {rf \in Uncited(s) : views[rf.role].status = "complete"} = Uncited(s)
  <2>1. ASSUME NEW x \in Uncited(s) PROVE views[x.role].status = "complete"
    <3>1. PICK rf \in StoredFindings(s) : x = [rf EXCEPT !.finding.refs = {}]
      BY DEF Uncited
    <3>2. x.role = rf.role
      BY <3>1, CitationsRestored
    <3> QED
      BY <1>1, <3>2
  <2> QED
    BY <2>1
<1>3. \A rf \in StoredFindings(s) :
         [[rf EXCEPT !.finding.refs = {}] EXCEPT
             !.finding.refs = RefsOf(s, [rf EXCEPT !.finding.refs = {}])] = rf
  BY CitationsRestored
<1>4. {[rf EXCEPT !.finding.refs = RefsOf(s, rf)] : rf \in Uncited(s)}
        = {[[rf EXCEPT !.finding.refs = {}] EXCEPT
              !.finding.refs = RefsOf(s, [rf EXCEPT !.finding.refs = {}])] :
              rf \in StoredFindings(s)}
  BY DEF Uncited
<1>5. {[[rf EXCEPT !.finding.refs = {}] EXCEPT
          !.finding.refs = RefsOf(s, [rf EXCEPT !.finding.refs = {}])] :
          rf \in StoredFindings(s)} = StoredFindings(s)
  BY <1>3, Zenon
<1> QED
  BY <1>2, <1>4, <1>5, Zenon

-----------------------------------------------------------------------------
(* The inductive invariant.                                                *)

\* The handlers' variables are tables with a row for every client.
Tables ==
    /\ request \in [Client -> Request \cup {Null}]
    /\ stage \in [Client -> {"idle", "auth", "cancel", "session", "roles", "findings", "refs"}]
    /\ DOMAIN partial = Client
    /\ DOMAIN answer = Client

\* What the handlers put together: a record of four parts.
IsPart(p) ==
    p = [row |-> p.row, roles |-> p.roles, found |-> p.found, did |-> p.did]

\* What the cancellation did is still visible.
DeedStands(s, did) ==
    /\ did # "none" => sessions[s].status # "absent"
    /\ did \in {"effective", "repeat"} => sessions[s].cancel_requested
    /\ did = "terminal" => sessions[s].status \in TerminalSession

\* What has been read so far: a terminal session row is final, and with it the
\* roles and findings read after it.
ReadSoFar(c) ==
    LET q == request[c]
        p == partial[c]
        s == q.session IN
    /\ ProjectOf[s] = q.project
    /\ p.row.status \in TerminalSession =>
          sessions[s].status \in TerminalSession /\ p.row = RowView(s)
    /\ p.did \in {"effective", "repeat"} => p.row.cancel
    /\ p.did = "terminal" => p.row.status \in TerminalSession
    /\ q.op = "report" => p.row.status \in TerminalSession
    /\ stage[c] \in {"findings", "refs"} => q.op = "report" /\ p.roles = RoleViews(s)
    /\ stage[c] = "refs" => p.found = Uncited(s)

\* What a handler between two of its queries can rely on.
InHand(c) ==
    /\ IsPart(partial[c])
    /\ stage[c] = "idle" <=> request[c] = Null
    /\ stage[c] \notin {"idle", "auth"} => request[c].project \in Access[c]
    /\ stage[c] = "cancel" => request[c].op = "cancel"
    /\ stage[c] \in {"session", "roles", "findings", "refs"} =>
          DeedStands(request[c].session, partial[c].did)
    /\ stage[c] \in {"roles", "findings", "refs"} => ReadSoFar(c)

\* ReportIsFinal and StatusHangsTogether for one client.
ReportFinal(c) ==
    Answered(c, {"report"}) =>
        LET s == answer[c].to.session
            part == answer[c].part IN
        /\ Owned(c)
        /\ part.row = RowView(s)
        /\ part.roles = RoleViews(s)
        /\ Verdict(part.roles) = [status |-> part.row.status, reason |-> part.row.reason]
        /\ part.row.completed = Cardinality(CompletedRoles(part.roles))
        /\ part.found = StoredFindings(s)
        /\ Sorted(part.found) = {answer[c].list}

StatusSound(c) ==
    Answered(c, {"status", "cancel"}) =>
        LET part == answer[c].part IN
        /\ Owned(c)
        /\ part.row.status \in TerminalSession =>
              /\ \A r \in Role : part.roles[r].status \in TerminalRole
              /\ Verdict(part.roles) = [status |-> part.row.status, reason |-> part.row.reason]
        /\ part.did \in {"effective", "repeat"} => part.row.cancel
        /\ part.did = "terminal" => part.row.status \in TerminalSession

AnswerRight(c) ==
    /\ answer[c].code \in {0, 200, 202, 404, 409, 503}
    /\ answer[c].code # 0 => answer[c].to \in Request
    /\ ReportFinal(c)
    /\ StatusSound(c)

APIInv ==
    /\ IInv
    /\ findings \in [Session -> [Role -> SUBSET Finding]]
    /\ FindingsStored
    /\ Tables
    /\ \A c \in Client : InHand(c) /\ AnswerRight(c)

-----------------------------------------------------------------------------
(* What the review going on does to a reader.                              *)

\* Findings are only written while their role is in flight.
FindingsGuarded ==
    \A s \in Session, r \in Role :
        role_runs[s][r].status # "in_flight" => findings'[s][r] = findings[s][r]

\* A session with a verdict reads the same ever after.
LEMMA ReadsTheSame ==
    ASSUME IInv, [Next]_vars, FindingsGuarded, NEW s \in Session,
           sessions[s].status \in TerminalSession
    PROVE  /\ sessions'[s] = sessions[s]
           /\ RowView(s)' = RowView(s)
           /\ RoleViews(s)' = RoleViews(s)
           /\ StoredFindings(s)' = StoredFindings(s)
<1>1. sessions'[s] = sessions[s] /\ role_runs'[s] = role_runs[s]
  BY TerminalQuiet
<1>2. \A r \in CompletedRoles(role_runs[s]) : findings'[s][r] = findings[s][r]
  BY DEF FindingsGuarded, CompletedRoles
<1>3. {{[role |-> r, finding |-> f] : f \in findings'[s][r]} : r \in CompletedRoles(role_runs[s])}
        = {{[role |-> r, finding |-> f] : f \in findings[s][r]} : r \in CompletedRoles(role_runs[s])}
  BY <1>2
<1> QED
  BY <1>1, <1>3 DEF RowView, RoleViews, StoredFindings

\* A session never disappears, nor does a cancellation or a verdict.
LEMMA OnlyForward ==
    ASSUME IInv, [Next]_vars, NEW s \in Session, sessions[s].status # "absent"
    PROVE  /\ sessions'[s].status # "absent"
           /\ sessions[s].cancel_requested => sessions'[s].cancel_requested
           /\ sessions[s].status \in TerminalSession => sessions'[s].status \in TerminalSession
<1>1. SessionEffect(s)
  BY SessionStep DEF IInv
<1>2. sessions[s].status \in TerminalSession => sessions'[s] = sessions[s]
  BY TerminalQuiet
<1> QED
  BY <1>1, <1>2, VerdictType
     DEF SessionEffect, Submitted, Flagged, TakenUp, Concluded, TerminalSession

\* A handler that does not run itself loses nothing it relies on.
LEMMA HandlerUndisturbed ==
    ASSUME IInv, Tables, [Next]_vars, FindingsGuarded, NEW c \in Client, InHand(c),
           request'[c] = request[c], stage'[c] = stage[c], partial'[c] = partial[c]
    PROVE  InHand(c)'
<1>1. CASE stage[c] \in {"idle", "auth", "cancel"}
  BY <1>1 DEF InHand, IsPart
<1>2. CASE stage[c] \in {"session", "roles", "findings", "refs"}
  <2> DEFINE s == request[c].session
  <2>1. s \in Session
    BY <1>2 DEF InHand, Tables, Request
  <2>2. DeedStands(s, partial[c].did)
    BY <1>2 DEF InHand
  <2>3. DeedStands(s, partial[c].did)'
    <3>1. CASE partial[c].did = "none"
      BY <3>1 DEF DeedStands
    <3>2. CASE partial[c].did # "none"
      BY <2>1, <2>2, <3>2, OnlyForward DEF DeedStands
    <3> QED
      BY <3>1, <3>2
  <2>4. stage[c] \in {"roles", "findings", "refs"} => ReadSoFar(c)'
    <3> SUFFICES ASSUME stage[c] \in {"roles", "findings", "refs"} PROVE ReadSoFar(c)'
      OBVIOUS
    <3>1. ReadSoFar(c)
      BY DEF InHand
    <3>2. sessions[s].status \in TerminalSession =>
             /\ sessions'[s] = sessions[s]
             /\ RowView(s)' = RowView(s)
             /\ RoleViews(s)' = RoleViews(s)
             /\ Uncited(s)' = Uncited(s)
      BY <2>1, ReadsTheSame DEF Uncited
    <3> QED
      BY <3>1, <3>2 DEF ReadSoFar
  <2> QED
    BY <1>2, <2>3, <2>4 DEF InHand, IsPart
<1> QED
  BY <1>1, <1>2 DEF Tables

\* An answer that was right stays right.
LEMMA AnswerUndisturbed ==
    ASSUME IInv, [Next]_vars, FindingsGuarded, NEW c \in Client, AnswerRight(c),
           answer'[c] = answer[c]
    PROVE  AnswerRight(c)'
<1>1. ReportFinal(c)'
  <2> SUFFICES ASSUME Answered(c, {"report"}) PROVE ReportFinal(c)'
    BY DEF ReportFinal, Answered
  <2> DEFINE s == answer[c].to.session
             part == answer[c].part
  <2>1. s \in Session
    BY DEF Answered, AnswerRight, Request
  <2>2. ReportFinal(c)
    BY DEF AnswerRight
  <2>3. part.row = RowView(s) /\ part.row.status \in TerminalSession
    <3>1. part.row.status = Verdict(part.roles).status
      BY <2>2 DEF ReportFinal
    <3> QED
      BY <2>2, <3>1, VerdictType DEF ReportFinal
  <2>4. sessions[s].status \in TerminalSession
    BY <2>3 DEF RowView
  <2>5. /\ RowView(s)' = RowView(s) /\ RoleViews(s)' = RoleViews(s)
        /\ StoredFindings(s)' = StoredFindings(s)
    BY <2>1, <2>4, ReadsTheSame
  <2> QED
    BY <2>2, <2>5 DEF ReportFinal, Owned, Answered
<1>2. StatusSound(c)'
  BY DEF AnswerRight, StatusSound, Owned, Answered
<1> QED
  BY <1>1, <1>2 DEF AnswerRight

-----------------------------------------------------------------------------
(* The steps of the handlers.                                              *)

\* The other clients' handlers stand still.
OthersWait(c) ==
    \A d \in Client \ {c} :
        /\ request'[d] = request[d] /\ stage'[d] = stage[d]
        /\ partial'[d] = partial[d] /\ answer'[d] = answer[d]

\* A reply ends the request.
LEMMA ReplyEffect ==
    ASSUME Tables, NEW c \in Client, NEW code, NEW part, NEW list, Reply(c, code, part, list)
    PROVE  /\ Tables' /\ OthersWait(c)
           /\ answer'[c] = [to |-> request[c], code |-> code, part |-> part, list |-> list]
           /\ stage'[c] = "idle" /\ request'[c] = Null /\ partial'[c] = NoPart
  BY DEF Tables, Reply, OthersWait

\* A query that is not the last adds to what is known.
LEMMA KeepEffect ==
    ASSUME Tables, NEW c \in Client, NEW part,
           NEW next \in {"cancel", "session", "roles", "findings", "refs"}, Keep(c, part, next)
    PROVE  /\ Tables' /\ OthersWait(c)
           /\ answer'[c] = answer[c] /\ request'[c] = request[c]
           /\ stage'[c] = next /\ partial'[c] = part
  BY DEF Tables, Keep, OthersWait

\* A handler that is done knows nothing any more.
LEMMA Done ==
    ASSUME NEW c, stage'[c] = "idle", request'[c] = Null, partial'[c] = NoPart
    PROVE  InHand(c)'
  BY DEF InHand, IsPart, NoPart

\* A refusal says nothing about a session.
LEMMA RefuseRight ==
    ASSUME Tables, NEW c \in Client, request[c] \in Request,
           NEW code \in {404, 409, 503}, Refuse(c, code)
    PROVE  Tables' /\ OthersWait(c) /\ InHand(c)' /\ AnswerRight(c)'
<1>1. /\ Tables' /\ OthersWait(c) /\ InHand(c)'
      /\ answer'[c] = [to |-> request[c], code |-> code, part |-> NoPart, list |-> <<>>]
  BY ReplyEffect, Done DEF Refuse
<1>2. answer'[c].code = code /\ answer'[c].to = request[c]
  BY <1>1
<1> QED
  BY <1>1, <1>2 DEF AnswerRight, ReportFinal, StatusSound, Answered

\* What is to be shown of a handler's step.
StepRight(c) == Tables' /\ OthersWait(c) /\ InHand(c)' /\ AnswerRight(c)'

\* A handler that is at work has a request.
LEMMA AtWork ==
    ASSUME APIInv, NEW c \in Client, stage[c] # "idle"
    PROVE  /\ request[c] \in Request /\ request[c] # Null
           /\ request[c].session \in Session
           /\ request[c].op \in Op
           /\ InHand(c) /\ AnswerRight(c)
  BY NullIsNoRequest DEF APIInv, InHand, Tables, Request

\* What is known of an answer while the tables do not change.
LEMMA AnswerStays ==
    ASSUME APIInv, NEW c \in Client, UNCHANGED Store, answer'[c] = answer[c]
    PROVE  AnswerRight(c)'
<1>1. FindingsGuarded
  BY DEF Store, FindingsGuarded
<1> QED
  BY <1>1, AnswerUndisturbed DEF APIInv, Store

\* A new request: nothing is known yet.
LEMMA AskRight == ASSUME APIInv, NEW c \in Client, Ask(c) PROVE StepRight(c)
<1>1. PICK q \in Request : request' = [request EXCEPT ![c] = q]
  BY DEF Ask
<1>2. /\ Tables' /\ OthersWait(c)
      /\ request'[c] = q /\ stage'[c] = "auth"
      /\ partial'[c] = partial[c] /\ answer'[c] = answer[c]
  BY <1>1 DEF APIInv, Tables, Ask, OthersWait
<1>3. IsPart(partial[c])
  BY DEF APIInv, InHand
<1>4. InHand(c)'
  BY <1>2, <1>3, NullIsNoRequest DEF InHand, IsPart
<1>5. AnswerRight(c)'
  BY <1>2, AnswerStays DEF Ask
<1> QED
  BY <1>2, <1>4, <1>5 DEF StepRight

\* Past the authorizer the project is one the caller may use.
LEMMA CheckAuthRight == ASSUME APIInv, NEW c \in Client, CheckAuth(c) PROVE StepRight(c)
<1>1. /\ Tables /\ stage[c] = "auth" /\ request[c] \in Request /\ request[c] # Null
      /\ UNCHANGED Store
  BY AtWork DEF CheckAuth, APIInv
<1>2. CASE request[c].project \in Access[c]
  <2>1. PICK next \in {"cancel", "session"} :
           Keep(c, NoPart, next) /\ (next = "cancel" => request[c].op = "cancel")
    BY <1>2 DEF CheckAuth
  <2>2. /\ Tables' /\ OthersWait(c)
        /\ answer'[c] = answer[c] /\ request'[c] = request[c]
        /\ stage'[c] = next /\ partial'[c] = NoPart
    BY <1>1, <2>1, KeepEffect
  <2>3. IsPart(NoPart) /\ NoPart.did = "none"
    BY DEF IsPart, NoPart
  <2>4. InHand(c)'
    BY <1>1, <1>2, <2>1, <2>2, <2>3 DEF InHand, IsPart, DeedStands
  <2>5. AnswerRight(c)'
    BY <1>1, <2>2, AnswerStays
  <2> QED
    BY <2>2, <2>4, <2>5 DEF StepRight
<1>3. CASE request[c].project \notin Access[c]
  BY <1>1, <1>3, RefuseRight DEF CheckAuth, StepRight
<1> QED
  BY <1>2, <1>3

\* The cancellation is committed before the session row is read.
LEMMA CancelTxRight ==
    ASSUME APIInv, NEW c \in Client, CancelTx(c)
    PROVE  StepRight(c) /\ [Next]_vars /\ UNCHANGED findings
<1> DEFINE s == request[c].session
<1>1. /\ Tables /\ stage[c] = "cancel" /\ request[c] \in Request /\ request[c] # Null
      /\ s \in Session /\ InHand(c) /\ AnswerRight(c)
      /\ sessions[s] \in SessionRow
  BY AtWork DEF CancelTx, APIInv, IInv, TypeOK
<1>2. CASE Refuse(c, 404) /\ UNCHANGED Store
  BY <1>1, <1>2, RefuseRight DEF StepRight, Store
<1>3. ASSUME NEW what \in {"terminal", "repeat", "effective"}, Reread(c, what),
             [Next]_vars, UNCHANGED findings, DeedStands(s, what)'
      PROVE  StepRight(c)
  <2> DEFINE p == [NoPart EXCEPT !.did = what]
  <2>1. /\ Tables' /\ OthersWait(c)
        /\ answer'[c] = answer[c] /\ request'[c] = request[c]
        /\ stage'[c] = "session" /\ partial'[c] = p
    BY <1>1, <1>3, KeepEffect DEF Reread
  <2>2. IsPart(p) /\ p.did = what
    BY DEF IsPart, NoPart
  <2>3. InHand(c)'
    <3> HIDE DEF p
    <3> QED
      BY <1>1, <1>3, <2>1, <2>2 DEF InHand, IsPart
  <2>4. AnswerRight(c)'
    BY <1>1, <1>3, <2>1, AnswerUndisturbed DEF APIInv, FindingsGuarded
  <2> QED
    BY <2>1, <2>3, <2>4 DEF StepRight
<1>4. CASE /\ Visible(c) /\ sessions[s].status \in TerminalSession
           /\ Reread(c, "terminal") /\ UNCHANGED Store
  <2>1. [Next]_vars /\ UNCHANGED <<findings, request>>
    BY <1>4 DEF Store, Reread, Keep
  <2>2. DeedStands(s, "terminal")'
    BY <1>4, <2>1 DEF DeedStands, Store, vars, Visible
  <2> QED
    BY <1>3, <1>4, <2>1, <2>2
<1>5. CASE /\ Visible(c) /\ sessions[s].cancel_requested
           /\ Reread(c, "repeat") /\ UNCHANGED Store
  <2>1. [Next]_vars /\ UNCHANGED <<findings, request>>
    BY <1>5 DEF Store, Reread, Keep
  <2>2. DeedStands(s, "repeat")'
    BY <1>5, <2>1 DEF DeedStands, Store, vars, Visible
  <2> QED
    BY <1>3, <1>5, <2>1, <2>2
<1>6. CASE /\ Visible(c) /\ RequestCancellation(s)
           /\ Reread(c, "effective") /\ UNCHANGED findings
  <2>1. [Next]_vars /\ UNCHANGED request
    BY <1>1, <1>6 DEF Next, Reread, Keep
  <2>2. sessions'[s].cancel_requested /\ sessions'[s].status = sessions[s].status
    BY <1>1, <1>6 DEF RequestCancellation, SessionRow, APIInv, IInv, TypeOK
  <2>3. DeedStands(s, "effective")'
    BY <1>6, <2>1, <2>2 DEF DeedStands, Visible
  <2> QED
    BY <1>3, <1>6, <2>1, <2>3
<1> QED
  BY <1>2, <1>4, <1>5, <1>6 DEF CancelTx

\* The session row is the first thing that is read, and for a report it has
\* its verdict.
LEMMA QuerySessionRight == ASSUME APIInv, NEW c \in Client, QuerySession(c) PROVE StepRight(c)
<1> DEFINE s == request[c].session
           p == [partial[c] EXCEPT !.row = RowView(s)]
<1>1. /\ Tables /\ stage[c] = "session" /\ request[c] \in Request /\ request[c] # Null
      /\ s \in Session /\ InHand(c) /\ UNCHANGED Store
  BY AtWork DEF QuerySession, APIInv
<1>2. CASE \E code \in {404, 409, 503} : Refuse(c, code)
  BY <1>1, <1>2, RefuseRight DEF StepRight
<1>3. CASE Visible(c) /\ Reportable(c) /\ Keep(c, p, "roles")
  <2>1. /\ Tables' /\ OthersWait(c)
        /\ answer'[c] = answer[c] /\ request'[c] = request[c]
        /\ stage'[c] = "roles" /\ partial'[c] = p
    BY <1>1, <1>3, KeepEffect
  <2>2. IsPart(p) /\ p.row = RowView(s) /\ p.did = partial[c].did
    BY <1>1 DEF InHand, IsPart
  <2>3. /\ DeedStands(s, partial[c].did) /\ request[c].project \in Access[c]
        /\ ProjectOf[s] = request[c].project
        /\ request[c].op = "report" => sessions[s].status \in TerminalSession
    BY <1>1, <1>3 DEF InHand, Visible, Reportable
  <2>4. RowView(s).status = sessions[s].status /\ RowView(s).cancel = sessions[s].cancel_requested
    BY DEF RowView
  <2>5. sessions' = sessions
    BY <1>1 DEF Store, vars
  <2> HIDE DEF p
  <2>6. DeedStands(s, partial[c].did)' /\ RowView(s)' = RowView(s)
    BY <2>1, <2>2, <2>3, <2>5 DEF DeedStands, RowView
  <2>7. ReadSoFar(c)'
    BY <2>1, <2>2, <2>3, <2>4, <2>5, <2>6 DEF ReadSoFar, DeedStands
  <2>8. InHand(c)'
    BY <1>1, <2>1, <2>2, <2>3, <2>6, <2>7 DEF InHand, IsPart
  <2>9. AnswerRight(c)'
    BY <1>1, <2>1, AnswerStays
  <2> QED
    BY <2>1, <2>8, <2>9 DEF StepRight
<1> QED
  BY <1>2, <1>3 DEF QuerySession, NotFinished

\* The composer comes to the same verdict from what is shown of the roles.
LEMMA ViewVerdict ==
    ASSUME NEW s \in Session
    PROVE  /\ Verdict(RoleViews(s)) = Verdict(role_runs[s])
           /\ CompletedRoles(RoleViews(s)) = CompletedRoles(role_runs[s])
<1>1. \A r \in Role : /\ RoleViews(s)[r].status = role_runs[s][r].status
                      /\ RoleViews(s)[r].cause = role_runs[s][r].cause
  BY DEF RoleViews
<1>2. CompletedRoles(RoleViews(s)) = CompletedRoles(role_runs[s])
  BY <1>1 DEF CompletedRoles
<1>3. \A why : HasCause(RoleViews(s), why) <=> HasCause(role_runs[s], why)
  BY <1>1 DEF HasCause
<1> QED
  BY <1>2, <1>3 DEF Verdict, RemainingReason

\* The role rows read after a terminal session row are those of its verdict.
LEMMA RolesOfVerdict ==
    ASSUME IInv, NEW s \in Session, sessions[s].status \in TerminalSession
    PROVE  /\ \A r \in Role : RoleViews(s)[r].status \in TerminalRole
           /\ Verdict(RoleViews(s)) =
                 [status |-> RowView(s).status, reason |-> RowView(s).reason]
           /\ RowView(s).completed = Cardinality(CompletedRoles(RoleViews(s)))
<1>1. \A r \in Role : RoleViews(s)[r].status = role_runs[s][r].status
  BY DEF RoleViews
<1>2. \A r \in Role : role_runs[s][r].status \in TerminalRole
  BY DEF IInv, RolesFollowSession, AllTerminal
<1> QED
  BY <1>1, <1>2, ViewVerdict DEF IInv, VerdictStaysTrue, RowView

\* The role rows end a status, and are the second part of a report.
LEMMA QueryRolesRight == ASSUME APIInv, NEW c \in Client, QueryRoles(c) PROVE StepRight(c)
<1> DEFINE s == request[c].session
           p == [partial[c] EXCEPT !.roles = RoleViews(s)]
<1>1. /\ Tables /\ stage[c] = "roles" /\ request[c] \in Request /\ request[c] # Null
      /\ s \in Session /\ request[c].op \in Op /\ InHand(c) /\ UNCHANGED Store
  BY AtWork DEF QueryRoles, APIInv
<1>2. /\ DeedStands(s, partial[c].did) /\ request[c].project \in Access[c] /\ ReadSoFar(c)
      /\ UNCHANGED <<sessions, role_runs, findings>>
  BY <1>1 DEF InHand, Store, vars
<1>3. /\ IsPart(p) /\ p.roles = RoleViews(s)
      /\ p.row = partial[c].row /\ p.did = partial[c].did
  BY <1>1 DEF InHand, IsPart
<1>4. CASE request[c].op = "report"
  <2>1. Keep(c, p, "findings")
    BY <1>4 DEF QueryRoles
  <2>2. /\ Tables' /\ OthersWait(c)
        /\ answer'[c] = answer[c] /\ request'[c] = request[c]
        /\ stage'[c] = "findings" /\ partial'[c] = p
    BY <1>1, <2>1, KeepEffect
  <2> HIDE DEF p
  <2>3. DeedStands(s, partial[c].did)' /\ RowView(s)' = RowView(s) /\ RoleViews(s)' = RoleViews(s)
    BY <1>2, <1>3, <2>2 DEF DeedStands, RowView, RoleViews
  <2>4. ReadSoFar(c)'
    BY <1>2, <1>3, <1>4, <2>2, <2>3 DEF ReadSoFar
  <2>5. InHand(c)'
    BY <1>1, <1>2, <1>3, <2>2, <2>3, <2>4 DEF InHand, IsPart
  <2>6. AnswerRight(c)'
    BY <1>1, <2>2, AnswerStays
  <2> QED
    BY <2>2, <2>5, <2>6 DEF StepRight
<1>5. CASE request[c].op # "report"
  <2>1. Reply(c, SuccessCode(p), p, <<>>)
    BY <1>5 DEF QueryRoles
  <2>2. /\ Tables' /\ OthersWait(c) /\ InHand(c)'
        /\ answer'[c] = [to |-> request[c], code |-> SuccessCode(p), part |-> p, list |-> <<>>]
    BY <1>1, <2>1, ReplyEffect, Done
  <2> HIDE DEF p
  <2>3. /\ answer'[c].to = request[c] /\ answer'[c].part = p
        /\ answer'[c].code \in {200, 202}
    BY <2>2 DEF SuccessCode
  <2>4. ReportFinal(c)'
    BY <1>5, <2>3 DEF ReportFinal, Answered
  <2>5. Owned(c)'
    BY <1>2, <2>3 DEF Owned, ReadSoFar
  <2>6. p.row.status \in TerminalSession =>
           /\ \A r \in Role : p.roles[r].status \in TerminalRole
           /\ Verdict(p.roles) = [status |-> p.row.status, reason |-> p.row.reason]
    BY <1>1, <1>2, <1>3, RolesOfVerdict DEF ReadSoFar, APIInv
  <2>7. /\ p.did \in {"effective", "repeat"} => p.row.cancel
        /\ p.did = "terminal" => p.row.status \in TerminalSession
    BY <1>2, <1>3 DEF ReadSoFar
  <2>8. StatusSound(c)'
    BY <2>3, <2>5, <2>6, <2>7 DEF StatusSound
  <2> QED
    BY <1>1, <2>2, <2>3, <2>4, <2>8 DEF StepRight, AnswerRight
<1> QED
  BY <1>4, <1>5

\* The findings are read without their citations.
LEMMA QueryFindingsRight ==
    ASSUME APIInv, NEW c \in Client, QueryFindings(c)
    PROVE  StepRight(c)
<1> DEFINE s == request[c].session
           p == [partial[c] EXCEPT !.found = Uncited(s)]
<1>1. /\ Tables /\ stage[c] = "findings" /\ request[c] \in Request /\ request[c] # Null
      /\ s \in Session /\ InHand(c) /\ UNCHANGED Store
  BY AtWork DEF QueryFindings, APIInv
<1>2. /\ DeedStands(s, partial[c].did) /\ request[c].project \in Access[c] /\ ReadSoFar(c)
      /\ UNCHANGED <<sessions, role_runs, findings>>
  BY <1>1 DEF InHand, Store, vars
<1>3. /\ IsPart(p) /\ p.found = Uncited(s)
      /\ p.row = partial[c].row /\ p.roles = partial[c].roles /\ p.did = partial[c].did
  BY <1>1 DEF InHand, IsPart
<1>4. Keep(c, p, "refs")
  BY DEF QueryFindings, Uncited
<1>5. /\ Tables' /\ OthersWait(c)
      /\ answer'[c] = answer[c] /\ request'[c] = request[c]
      /\ stage'[c] = "refs" /\ partial'[c] = p
  BY <1>1, <1>4, KeepEffect
<1> HIDE DEF p
<1>6. /\ DeedStands(s, partial[c].did)'
      /\ RowView(s)' = RowView(s) /\ RoleViews(s)' = RoleViews(s) /\ Uncited(s)' = Uncited(s)
  BY <1>2, <1>3, <1>5 DEF DeedStands, RowView, RoleViews, Uncited, StoredFindings
<1>7. ReadSoFar(c)'
  BY <1>1, <1>2, <1>3, <1>5, <1>6 DEF ReadSoFar
<1>8. InHand(c)'
  BY <1>1, <1>2, <1>3, <1>5, <1>6, <1>7 DEF InHand, IsPart
<1>9. AnswerRight(c)'
  BY <1>1, <1>5, AnswerStays
<1> QED
  BY <1>5, <1>8, <1>9 DEF StepRight

\* With the citations the report is complete, and its order is the only one.
LEMMA QueryRefsRight == ASSUME APIInv, NEW c \in Client, QueryRefs(c) PROVE StepRight(c)
<1> DEFINE s == request[c].session
           whole == {[rf EXCEPT !.finding.refs = RefsOf(s, rf)] :
                        rf \in {rf \in partial[c].found :
                                   partial[c].roles[rf.role].status = "complete"}}
           p == [partial[c] EXCEPT !.found = StoredFindings(s)]
<1>1. /\ Tables /\ stage[c] = "refs" /\ request[c] \in Request /\ request[c] # Null
      /\ s \in Session /\ InHand(c) /\ UNCHANGED Store
  BY AtWork DEF QueryRefs, APIInv
<1>2. /\ request[c].project \in Access[c] /\ ReadSoFar(c)
      /\ UNCHANGED <<sessions, role_runs, findings>>
  BY <1>1 DEF InHand, Store, vars
<1>3. /\ request[c].op = "report" /\ ProjectOf[s] = request[c].project
      /\ sessions[s].status \in TerminalSession
      /\ partial[c].row = RowView(s) /\ partial[c].roles = RoleViews(s)
      /\ partial[c].found = Uncited(s)
  BY <1>1, <1>2 DEF ReadSoFar
<1>4. whole = StoredFindings(s)
  BY <1>1, <1>3, ReportComplete DEF APIInv
<1>5. PICK list \in Sorted(whole) : Reply(c, 200, [partial[c] EXCEPT !.found = whole], list)
  BY DEF QueryRefs
<1> HIDE DEF whole
<1>6. Reply(c, 200, p, list)
  BY <1>4, <1>5
<1>7. /\ p.row = RowView(s) /\ p.roles = RoleViews(s) /\ p.found = StoredFindings(s)
  BY <1>1, <1>3 DEF InHand, IsPart
<1>8. /\ Tables' /\ OthersWait(c) /\ InHand(c)'
      /\ answer'[c] = [to |-> request[c], code |-> 200, part |-> p, list |-> list]
  BY <1>1, <1>6, ReplyEffect, Done
<1> HIDE DEF p
<1>9. /\ answer'[c].to = request[c] /\ answer'[c].part = p
      /\ answer'[c].code = 200 /\ answer'[c].list = list
  BY <1>8
<1>10. StatusSound(c)'
  BY <1>3, <1>9 DEF StatusSound, Answered
<1>11. Owned(c)'
  BY <1>2, <1>3, <1>9 DEF Owned
<1>12. Sorted(StoredFindings(s)) = {list}
  BY <1>1, <1>4, <1>5, ReportOrder DEF APIInv
<1>13. /\ Verdict(p.roles) = [status |-> p.row.status, reason |-> p.row.reason]
       /\ p.row.completed = Cardinality(CompletedRoles(p.roles))
  BY <1>1, <1>3, <1>7, RolesOfVerdict DEF APIInv
<1>14. ReportFinal(c)'
  <2> DEFINE t == answer[c].to.session
  <2>1. t' = s
    BY <1>9
  <2>2. RowView(t)' = RowView(s)
    BY <1>2, <2>1 DEF RowView
  <2>3. RoleViews(t)' = RoleViews(s)
    BY <1>2, <2>1 DEF RoleViews
  <2>4. StoredFindings(t)' = StoredFindings(s)
    BY <1>2, <2>1 DEF StoredFindings
  <2> HIDE DEF s
  <2> QED
    BY <1>7, <1>9, <1>11, <1>12, <1>13, <2>2, <2>3, <2>4 DEF ReportFinal
<1> QED
  BY <1>1, <1>8, <1>9, <1>10, <1>14 DEF StepRight, AnswerRight

\* Giving up says nothing about a session.
LEMMA UnavailableRight == ASSUME APIInv, NEW c \in Client, Unavailable(c) PROVE StepRight(c)
<1>1. /\ Tables /\ request[c] \in Request
  BY AtWork DEF Unavailable, APIInv
<1> QED
  BY <1>1, RefuseRight DEF Unavailable, StepRight

-----------------------------------------------------------------------------
(* The invariant, and what follows from it.                                *)

\* A transaction of the store that is not a handler's.
LEMMA StoreStepEffect ==
    ASSUME APIInv, StoreStep
    PROVE  /\ [Next]_vars /\ FindingsGuarded /\ UNCHANGED apiVars
           /\ findings' \in [Session -> [Role -> SUBSET Finding]]
           /\ FindingsStored'
<1>1. CASE Next /\ UNCHANGED findings
  BY <1>1 DEF StoreStep, APIInv, FindingsGuarded, FindingsStored
<1>2. ASSUME NEW s \in Session, NEW r \in Role, NEW now \in Reading, PublishFindings(s, r, now)
      PROVE  /\ [Next]_vars /\ FindingsGuarded
             /\ findings' \in [Session -> [Role -> SUBSET Finding]]
             /\ FindingsStored'
  <2>1. PICK fs \in SUBSET Finding :
           /\ IsFiniteSet(fs) /\ DistinctIds(fs)
           /\ findings' = [findings EXCEPT ![s][r] = fs]
    BY <1>2 DEF PublishFindings
  <2>2. [Next]_vars
    BY <1>2 DEF PublishFindings, Next
  <2>3. role_runs[s][r].status = "in_flight"
    BY <1>2 DEF PublishFindings, PublishRoleSuccess, Publish, Publishable
  <2>4. \A t \in Session, q \in Role :
           findings'[t][q] = IF t = s /\ q = r THEN fs ELSE findings[t][q]
    BY <2>1 DEF APIInv
  <2>5. findings' \in [Session -> [Role -> SUBSET Finding]]
    BY <2>1 DEF APIInv
  <2>6. FindingsStored'
    BY <2>1, <2>4 DEF APIInv, FindingsStored
  <2> QED
    BY <2>2, <2>3, <2>4, <2>5, <2>6 DEF FindingsGuarded
<1> QED
  BY <1>1, <1>2 DEF StoreStep

\* One client's step, whatever it is.
LEMMA HandlerEffect ==
    ASSUME APIInv, NEW c \in Client, Ask(c) \/ Handle(c)
    PROVE  [Next]_vars /\ UNCHANGED findings /\ StepRight(c)
<1>1. CASE CancelTx(c)
  BY <1>1, CancelTxRight
<1>2. CASE Ask(c)
  BY <1>2, AskRight DEF Ask, Store
<1>3. CASE CheckAuth(c)
  BY <1>3, CheckAuthRight DEF CheckAuth, Store
<1>4. CASE QuerySession(c)
  BY <1>4, QuerySessionRight DEF QuerySession, Store
<1>5. CASE QueryRoles(c)
  BY <1>5, QueryRolesRight DEF QueryRoles, Store
<1>6. CASE QueryFindings(c)
  BY <1>6, QueryFindingsRight DEF QueryFindings, Store
<1>7. CASE QueryRefs(c)
  BY <1>7, QueryRefsRight DEF QueryRefs, Store
<1>8. CASE Unavailable(c)
  BY <1>8, UnavailableRight DEF Unavailable, Store
<1> QED
  BY <1>1, <1>2, <1>3, <1>4, <1>5, <1>6, <1>7, <1>8 DEF Handle

\* At the start there are no requests, no answers and no findings.
LEMMA APIInitInv == APIInit => APIInv
<1> SUFFICES ASSUME APIInit PROVE APIInv
  OBVIOUS
<1>1. IInv
  BY InitInv DEF APIInit
<1>2. findings \in [Session -> [Role -> SUBSET Finding]] /\ FindingsStored
  BY FS_EmptySet DEF APIInit, FindingsStored, DistinctIds
<1>3. Tables
  BY DEF APIInit, Tables
<1>4. ASSUME NEW c \in Client PROVE InHand(c) /\ AnswerRight(c)
  <2>1. stage[c] = "idle" /\ request[c] = Null /\ partial[c] = NoPart /\ answer[c] = NoAnswer
    BY DEF APIInit
  <2>2. IsPart(NoPart) /\ NoAnswer.code = 0
    BY DEF IsPart, NoPart, NoAnswer
  <2> QED
    BY <2>1, <2>2 DEF InHand, AnswerRight, ReportFinal, StatusSound, Answered
<1> QED
  BY <1>1, <1>2, <1>3, <1>4 DEF APIInv

\* Every step of the server is a transaction of the store or invisible to it.
LEMMA APIStepIsStoreStep == APIInv /\ [APINext]_allVars => [Next]_vars
  BY StoreStepEffect, HandlerEffect DEF APINext, allVars

\* Every step keeps the invariant.
LEMMA APIStepInv == APIInv /\ [APINext]_allVars => APIInv'
<1> SUFFICES ASSUME APIInv, [APINext]_allVars PROVE APIInv'
  OBVIOUS
<1>1. IInv'
  BY APIStepIsStoreStep, StepInv DEF APIInv
<1>2. CASE StoreStep
  <2>1. ASSUME NEW c \in Client PROVE InHand(c)' /\ AnswerRight(c)'
    BY <1>2, StoreStepEffect, HandlerUndisturbed, AnswerUndisturbed DEF APIInv, apiVars
  <2> QED
    BY <1>1, <1>2, <2>1, StoreStepEffect DEF APIInv, Tables, apiVars
<1>3. ASSUME NEW c \in Client, Ask(c) \/ Handle(c) PROVE APIInv'
  <2>1. [Next]_vars /\ UNCHANGED findings /\ StepRight(c)
    BY <1>3, HandlerEffect
  <2>2. FindingsGuarded
    BY <2>1 DEF FindingsGuarded
  <2>3. ASSUME NEW d \in Client PROVE InHand(d)' /\ AnswerRight(d)'
    <3>1. CASE d = c
      BY <2>1, <3>1 DEF StepRight
    <3>2. CASE d # c
      BY <2>1, <2>2, <3>2, HandlerUndisturbed, AnswerUndisturbed
         DEF StepRight, OthersWait, APIInv
    <3> QED
      BY <3>1, <3>2
  <2> QED
    BY <1>1, <2>1, <2>3 DEF APIInv, FindingsStored, StepRight
<1>4. CASE UNCHANGED allVars
  <2>1. ASSUME NEW c \in Client PROVE InHand(c)' /\ AnswerRight(c)'
    BY <1>4, HandlerUndisturbed, AnswerUndisturbed
       DEF APIInv, allVars, apiVars, FindingsGuarded
  <2> QED
    BY <1>1, <1>4, <2>1 DEF APIInv, FindingsStored, Tables, allVars, apiVars
<1> QED
  BY <1>2, <1>3, <1>4 DEF APINext

\* The invariant holds throughout.
THEOREM APIInvariance == APISpec => []APIInv
<1>1. APIInit => APIInv
  BY APIInitInv
<1>2. APIInv /\ [APINext]_allVars => APIInv'
  BY APIStepInv
<1> QED
  BY <1>1, <1>2, PTL DEF APISpec

\* The requests are served over the store of ReviewStore: whatever the clients
\* ask, the tables only change by its transactions, so what is proved of the
\* store holds while it is being read.
THEOREM APIUsesTheStore == APISpec => Spec
<1>1. APIInit => Init
  BY DEF APIInit
<1>2. APIInv /\ [APINext]_allVars => [Next]_vars
  BY APIStepIsStoreStep
<1> QED
  BY <1>1, <1>2, APIInvariance, PTL DEF APISpec, Spec

\* Every handler ends with an answer and a status code the API documents.
THEOREM APITypes == APISpec => []APITypeOK
<1>1. APIInv => APITypeOK
  BY DEF APIInv, IInv, APITypeOK, Tables, InHand, AnswerRight
<1> QED
  BY <1>1, APIInvariance, PTL

\* A report that was answered is what the tables say, then and ever after: its
\* four queries need no transaction around them, because nothing they read
\* changes once the first has seen a terminal session.
THEOREM ReportsAreFinal == APISpec => []ReportIsFinal
<1>1. APIInv => \A c \in Client : ReportFinal(c)
  BY DEF APIInv, AnswerRight
<1>2. (\A c \in Client : ReportFinal(c)) => ReportIsFinal
  BY Zenon DEF ReportFinal, ReportIsFinal
<1> QED
  BY <1>1, <1>2, APIInvariance, PTL

\* A status shows a terminal session only with the roles it was composed
\* from, and a cancellation's answer shows the cancellation.
THEOREM StatusesHangTogether == APISpec => []StatusHangsTogether
<1>1. APIInv => \A c \in Client : StatusSound(c)
  BY DEF APIInv, AnswerRight
<1>2. (\A c \in Client : StatusSound(c)) => StatusHangsTogether
  BY Zenon DEF StatusSound, StatusHangsTogether
<1> QED
  BY <1>1, <1>2, APIInvariance, PTL
=============================================================================
