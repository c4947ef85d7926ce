------------------------------ MODULE ReviewAPI ------------------------------
(***************************************************************************)
(* What the owner of a review sees: the status, report and cancel requests *)
(* of internal/api/server.go over the read models of                       *)
(* internal/storage/sqlite/read.go and RequestCancellationScoped.          *)
(*                                                                         *)
(* A read model is put together from two to four queries on the reader     *)
(* pool, without a transaction around them: every query sees the latest    *)
(* committed state, and the review goes on in between.  The store is the   *)
(* one of ReviewStore; added here are the findings, which are written in   *)
(* the transaction that completes their role.                              *)
(*                                                                         *)
(* Of a row the model keeps what an answer is about, not its timestamps.   *)
(* Submission has a module of its own.                                     *)
(***************************************************************************)
EXTENDS ReviewStore, SequencesExt

CONSTANTS
    Client,
    Project,
    ProjectOf,   \* session -> the project it was submitted to
    Access,      \* client -> projects the authorizer lets it use
    Finding      \* findings whose fields pass validatePublishSuccessParams

\* A stored finding: severity by rank; texts, which are only compared, as
\* numbers.  An omission cites nothing and has an anchor instead.
FindingRow == [id : Nat, severity : 0..3, category : Nat, refs : SUBSET Nat,
               anchor : Nat \cup {Null}]

ASSUME APIConstants ==
    /\ ProjectOf \in [Session -> Project]
    /\ Access \in [Client -> SUBSET Project]
    /\ Finding \subseteq FindingRow
    /\ \A f \in Finding : f.refs = {} => f.anchor \in Nat

VARIABLES
    findings,   \* session -> role -> rows of findings and finding_basis_refs
    request,    \* client -> the request being handled
    stage,      \* client -> the next query of the handler
    partial,    \* client -> what its queries have returned so far
    answer      \* client -> the last answer

apiVars == <<request, stage, partial, answer>>

allVars == <<vars, findings, apiVars>>

Op == {"status", "report", "cancel"}

Request == [op : Op, session : Session, project : Project]

\* NULL stands for no request.
ASSUME NullIsNoRequest == Null \notin Request

\* Columns of a session row and of a role row that are part of an answer.
RowView(s) ==
    [status |-> sessions[s].status, reason |-> sessions[s].terminal_reason,
     cancel |-> sessions[s].cancel_requested,
     completed |-> sessions[s].completed_role_count]

RoleViews(s) ==
    [r \in Role |-> [status |-> role_runs[s][r].status, cause |-> role_runs[s][r].cause]]

NoRow == [status |-> "absent", reason |-> Null, cancel |-> FALSE, completed |-> 0]

NoRoles == [r \in Role |-> [status |-> "pending", cause |-> Null]]

NoPart == [row |-> NoRow, roles |-> NoRoles, found |-> {}, did |-> "none"]

NoAnswer == [to |-> Null, code |-> 0, part |-> NoPart, list |-> <<>>]

APIInit ==
    /\ Init
    /\ findings = [s \in Session |-> [r \in Role |-> {}]]
    /\ request = [c \in Client |-> Null]
    /\ stage = [c \in Client |-> "idle"]
    /\ partial = [c \in Client |-> NoPart]
    /\ answer = [c \in Client |-> NoAnswer]

-----------------------------------------------------------------------------
(* The store goes on.                                                      *)

\* validatePublishSuccessParams: no two findings of a role share an id.
DistinctIds(fs) == \A f, g \in fs : f.id = g.id => f = g

\* PublishRoleSuccess inserts the findings (a slice, hence finitely many) while
\* the role is in flight and completes it in the same transaction.
PublishFindings(s, r, now) ==
    /\ PublishRoleSuccess(s, r, now)
    /\ \E fs \in SUBSET Finding :
          /\ IsFiniteSet(fs) /\ DistinctIds(fs)
          /\ findings' = [findings EXCEPT ![s][r] = fs]

StoreStep ==
    /\ \/ \E s \in Session, r \in Role, now \in Reading : PublishFindings(s, r, now)
       \/ /\ Next
          /\ \A s \in Session : CompletedRoles(role_runs'[s]) = CompletedRoles(role_runs[s])
          /\ UNCHANGED findings
    /\ UNCHANGED apiVars

-----------------------------------------------------------------------------
(* The handlers.                                                           *)

Reply(c, code, part, list) ==
    /\ answer' = [answer EXCEPT ![c] =
                     [to |-> request[c], code |-> code, part |-> part, list |-> list]]
    /\ stage' = [stage EXCEPT ![c] = "idle"]
    /\ request' = [request EXCEPT ![c] = Null]
    /\ partial' = [partial EXCEPT ![c] = NoPart]

Refuse(c, code) == Reply(c, code, NoPart, <<>>)

\* What a query returned is kept and the handler goes on.
Keep(c, part, next) ==
    /\ partial' = [partial EXCEPT ![c] = part]
    /\ stage' = [stage EXCEPT ![c] = next]
    /\ UNCHANGED <<request, answer>>

Store == <<vars, findings>>

Ask(c) ==
    /\ stage[c] = "idle"
    /\ \E q \in Request : request' = [request EXCEPT ![c] = q]
    /\ stage' = [stage EXCEPT ![c] = "auth"]
    /\ UNCHANGED <<partial, answer, Store>>

\* checkAuth: a project that is not the caller's does not exist.
CheckAuth(c) ==
    /\ stage[c] = "auth"
    /\ IF request[c].project \in Access[c]
       THEN Keep(c, NoPart, IF request[c].op = "cancel" THEN "cancel" ELSE "session")
       ELSE Refuse(c, 404)
    /\ UNCHANGED Store

\* The session exists in the project of the request.
Visible(c) ==
    /\ sessions[request[c].session].status # "absent"
    /\ ProjectOf[request[c].session] = request[c].project

\* Mutant: the session row is the one read before the update.
RereadLeftOut(c, what) ==
    Keep(c, [NoPart EXCEPT !.did = what, !.row = RowView(request[c].session)], "roles")

\* The committed status is read again after the transaction.
Reread(c, what) == Keep(c, [NoPart EXCEPT !.did = what], "session")

\* RequestCancellationScoped, one transaction: a session that is terminal or
\* already cancelled is left alone.
CancelTx(c) ==
    LET s == request[c].session IN
    /\ stage[c] = "cancel"
    /\ \/ ~Visible(c) /\ Refuse(c, 404) /\ UNCHANGED Store
       \/ /\ Visible(c) /\ sessions[s].status \in TerminalSession
          /\ Reread(c, "terminal")
          /\ UNCHANGED Store
       \/ /\ Visible(c) /\ sessions[s].status \notin TerminalSession
          /\ sessions[s].cancel_requested
          /\ Reread(c, "repeat")
          /\ UNCHANGED Store
       \/ /\ Visible(c)
          /\ RequestCancellation(s)
          /\ Reread(c, "effective")
          /\ UNCHANGED findings

\* Mutant: readTerminalReport does not insist on a terminal session.
AnyStatus(c) == TRUE

\* A report is only made of a terminal session.
Reportable(c) ==
    request[c].op = "report" => sessions[request[c].session].status \in TerminalSession

\* Mutant: a report that is not ready is an error without a code of its own.
InternalError == 500

NotFinished == 409

\* querySessionRow.
QuerySession(c) ==
    /\ stage[c] = "session"
    /\ \/ ~Visible(c) /\ Refuse(c, 404)
       \/ Visible(c) /\ ~Reportable(c) /\ Refuse(c, NotFinished)
       \/ /\ Visible(c) /\ Reportable(c)
          /\ Keep(c, [partial[c] EXCEPT !.row = RowView(request[c].session)], "roles")
    /\ UNCHANGED Store

\* handleCancel: 202 if this request set the flag.
SuccessCode(part) == IF part.did = "effective" THEN 202 ELSE 200

\* queryRoleStatuses; the last query of a status.
QueryRoles(c) ==
    LET part == [partial[c] EXCEPT !.roles = RoleViews(request[c].session)] IN
    /\ stage[c] = "roles"
    /\ IF request[c].op = "report" THEN Keep(c, part, "findings")
       ELSE Reply(c, SuccessCode(part), part, <<>>)
    /\ UNCHANGED Store

\* Findings of the roles that are complete when the query runs.
StoredFindings(s) ==
    UNION {{[role |-> r, finding |-> f] : f \in findings[s][r]} : r \in CompletedRoles(role_runs[s])}

QueryFindings(c) ==
    /\ stage[c] = "findings"
    /\ Keep(c, [partial[c] EXCEPT !.found =
                   {[rf EXCEPT !.finding.refs = {}] : rf \in StoredFindings(request[c].session)}],
            "refs")
    /\ UNCHANGED Store

\* The basis refs the second query returns for a finding of the first.
RefsOf(s, rf) ==
    UNION {sf.finding.refs : sf \in {sf \in StoredFindings(s) :
              sf.role = rf.role /\ sf.finding.id = rf.finding.id}}

PrimaryRef(f) ==
    IF f.refs = {} THEN f.anchor ELSE CHOOSE u \in f.refs : \A v \in f.refs : u <= v

Lexicographic(p, q) ==
    \E i \in 1..Len(p) : p[i] < q[i] /\ \A j \in 1..(i - 1) : p[j] = q[j]

\* What findingLess compares, in this order.
SortKey(rf) ==
    <<rf.finding.severity, RoleOrder(rf.role), PrimaryRef(rf.finding), rf.finding.category,
      rf.finding.id>>

\* findingLess.
FindingLess(a, b) == Lexicographic(SortKey(a), SortKey(b))

\* A sort may return any order in which no finding is less than one before it:
\* SQLite promises nothing about the order the rows come in.
Sorted(rfs) ==
    {list \in SetToSeqs(rfs) :
        \A i, j \in 1..Len(list) : i < j => ~FindingLess(list[j], list[i])}

\* The citations, then the assembly: readTerminalReport drops findings of roles
\* that were not complete, and sorts.
QueryRefs(c) ==
    LET s == request[c].session
        whole == {[rf EXCEPT !.finding.refs = RefsOf(s, rf)] :
                     rf \in {rf \in partial[c].found :
                                partial[c].roles[rf.role].status = "complete"}} IN
    /\ stage[c] = "refs"
    /\ \E list \in Sorted(whole) :
          Reply(c, 200, [partial[c] EXCEPT !.found = whole], list)
    /\ UNCHANGED Store

\* A query fails, or the transaction of a cancellation could not be run or
\* confirmed: service unavailable.
Unavailable(c) ==
    /\ stage[c] \notin {"idle", "auth"}
    /\ Refuse(c, 503)
    /\ UNCHANGED Store

Handle(c) ==
    \/ CheckAuth(c) \/ CancelTx(c) \/ QuerySession(c) \/ QueryRoles(c)
    \/ QueryFindings(c) \/ QueryRefs(c) \/ Unavailable(c)

APINext ==
    \/ StoreStep
    \/ \E c \in Client : Ask(c) \/ Handle(c)

APISpec == APIInit /\ [][APINext]_allVars

-----------------------------------------------------------------------------
(* Properties.                                                             *)

\* Every handler ends with an answer and a status code the API documents.
APITypeOK ==
    /\ TypeOK
    /\ findings \in [Session -> [Role -> SUBSET Finding]]
    /\ request \in [Client -> Request \cup {Null}]
    /\ \A c \in Client :
          /\ stage[c] \in {"idle", "auth", "cancel", "session", "roles", "findings", "refs"}
          /\ stage[c] = "idle" <=> request[c] = Null
          /\ answer[c].code \in {0, 200, 202, 404, 409, 503}

Answered(c, ops) == answer[c].code \in {200, 202} /\ answer[c].to.op \in ops

\* Nobody is told about a session outside of the projects they may use.
Owned(c) ==
    /\ answer[c].to.project \in Access[c]
    /\ ProjectOf[answer[c].to.session] = answer[c].to.project

\* A report that was answered stays true: although it is read by four queries
\* while other transactions commit, it is exactly what the tables say, then and
\* ever after - the composer's verdict of the roles it lists, and all findings
\* of the completed roles with all their citations, in the only order that
\* findingLess allows (reading it again gives the same list).
ReportIsFinal ==
    \A c \in Client : Answered(c, {"report"}) =>
        LET s == answer[c].to.session
            part == answer[c].part IN
        /\ Owned(c)
        /\ part.row = RowView(s)
        /\ part.roles = RoleViews(s)
        /\ Verdict(part.roles) = [status |-> part.row.status, reason |-> part.row.reason]
        /\ part.row.completed = Cardinality(CompletedRoles(part.roles))
        /\ part.found = StoredFindings(s)
        /\ Sorted(part.found) = {answer[c].list}

\* A status is put together from two queries, and may be older than the role
\* rows it shows, but never newer: a terminal session is shown with the roles
\* it was composed from.  A cancellation answers with a status that shows it.
StatusHangsTogether ==
    \A c \in Client : Answered(c, {"status", "cancel"}) =>
        LET part == answer[c].part IN
        /\ Owned(c)
        /\ part.row.status \in TerminalSession =>
              /\ \A r \in Role : part.roles[r].status \in TerminalRole
              /\ Verdict(part.roles) = [status |-> part.row.status, reason |-> part.row.reason]
        /\ part.did \in {"effective", "repeat"} => part.row.cancel
        /\ part.did = "terminal" => part.row.status \in TerminalSession
=============================================================================
