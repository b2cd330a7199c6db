------------------------------- MODULE Inference -------------------------------
(***************************************************************************)
(* The inference broker: InferenceBroker.run of liki/inference/broker.py   *)
(* on the PostgreSQL backend of liki/inference_service.py.                 *)
(*                                                                         *)
(* One semantic request (idempotency key), any number of processes that    *)
(* run it again under its id.  Every backend call is a transaction under   *)
(* the advisory lock and one action; between any two a lease may run out,  *)
(* and run may be left: because the process dies, because its task is      *)
(* cancelled, or because a backend call raises.  The clock is the flag     *)
(* expired of an attempt.                                                  *)
(* Attempts are numbered by their fence.  An event is refused when its     *)
(* operation key was used before: keys holds the keys that can recur.      *)
(***************************************************************************)
EXTENDS Context

CONSTANTS
    Workers,        \* processes that call run
    Routes,         \* configured routes (records, see Context)
    Inputs,         \* compile inputs
    Usages,         \* tokens a provider may report
    Reasons,        \* reasons given to revive
    Invoices,       \* amounts a provider may bill at reconciliation
    MaxTotal,       \* max_total_attempt_cost_usd
    MaxCall,        \* max_call_cost_usd, or Unknown
    Retries,        \* RetryPolicy.same_route_retries
    Threshold,      \* RetryPolicy.circuit_failure_threshold
    MaxRuns,        \* bound: how often run is called
    None

Accepted == {"SEMANTIC_ACCEPTED", "DECISION_USEFUL"}
Failures == {"RETRYABLE_FAILURE", "NONRETRYABLE_FAILURE"}
Statuses == Accepted \cup Failures \cup {"CREATED", "HIBERNATED"}

ASSUME InferenceConstants ==
    /\ MaxTotal \in Nat /\ Retries \in Nat /\ MaxRuns \in Nat
    /\ Threshold \in Nat \ {0}
    /\ Estimate \in Nat \cup {Unknown} /\ Usages \subseteq Nat \cup {Unknown}
    /\ Invoices \subseteq Nat
    /\ None \notin Inputs /\ None \notin Statuses \cup {"ADMITTED", "ATTEMPTING"}
    /\ IsFiniteSet(Routes) /\ \A r \in Routes : ConfiguredRoute(r)
    /\ \A r, s \in Routes : r.expected = s.expected => r = s

\* The compiler rejects a context in which an id occurs twice; that an id names
\* the same evidence in every context is the callers' doing.
ASSUME EvidenceIdentified ==
    \A in, other \in Inputs :
        /\ in.items \in Seq(Items(in))
        /\ \A x \in Items(in) : x.rank \in PUBLIC..SEALED
        /\ in.wellFormed => \A j, k \in DOMAIN in.items :
                               in.items[j].id = in.items[k].id => j = k
        /\ \A x \in Items(in), y \in Items(other) : x.id = y.id => x.rank = y.rank

VARIABLES
    context,    \* the compiled context callers pass, None before compile
    request,    \* the inference_requests row
    attempts,   \* inference_attempts in the order of their fences
    circuit,    \* inference_route_circuits
    keys,       \* operation keys in the event log that can be asked for again
    broker,     \* where each process is in run
    sent,       \* provider calls made: the route and what its prompt held
    answers,    \* attempts whose artifact a caller was given
    abandoned,  \* history: which attempts run was left with, and why
    runs        \* calls of run so far

vars == <<context, request, attempts, circuit, keys, broker, sent, answers, abandoned, runs>>
db == <<request, attempts, circuit, keys>>

\* What _validate_response makes of an answer: a truncated one may be tried again;
\* an empty, refusing, ambiguous, ill-formed or implausible one may not.
Verdicts == Failures \cup {"SEMANTIC_ACCEPTED"}

NewRequest == [status |-> None, reserved |-> 0, accrued |-> 0, completed |-> 0]
\* "held" is history: the least the attempt was booked with since its call was admitted.
NewAttempt(route) == [route |-> route, status |-> "CREATED", cost |-> 0, held |-> 0, expired |-> FALSE]

Idle == [pc |-> "idle", routes |-> <<>>, next |-> 0, retry |-> 0, attempt |-> 0,
         status |-> None, error |-> None, reason |-> None]

Init ==
    /\ context = None
    /\ request = NewRequest
    /\ attempts = <<>>
    /\ circuit = [r \in Routes |-> [failures |-> 0, open |-> FALSE]]
    /\ keys = {}
    /\ broker = [w \in Workers |-> Idle]
    /\ sent = {} /\ answers = {} /\ abandoned = {}
    /\ runs = 0

At(w, pc) == broker[w].pc = pc
Goto(w, pc) == broker' = [broker EXCEPT ![w].pc = pc]
Stop(w, reason) == broker' = [broker EXCEPT ![w].pc = "hibernate", ![w].reason = reason]
Route(w) == broker[w].routes[broker[w].next]
Mine(w) == attempts[broker[w].attempt]

-------------------------------------------------------------------------------
(* Before the request exists *)

Compile(in) ==
    /\ request.status = None /\ context = None
    /\ Compiles(in)
    /\ context' = compile(in)
    /\ UNCHANGED <<db, broker, sent, answers, abandoned, runs>>

Expand(item) ==
    /\ request.status = None /\ context # None
    /\ MayExpand(context, item, context.route)
    /\ context' = apply_tool_expansion(context, item)
    /\ UNCHANGED <<db, broker, sent, answers, abandoned, runs>>

-------------------------------------------------------------------------------
(* InferenceBroker.run *)

\* create_or_get, then select_routes.  The circuits are read one by one without
\* the lock; here they are read together.
run(w) ==
    /\ At(w, "idle") /\ context # None /\ runs < MaxRuns
    /\ ~context.blocking
    /\ runs' = runs + 1
    /\ request' = IF request.status = None THEN [request EXCEPT !.status = "ADMITTED"] ELSE request
    /\ \E routes \in select_routes({r \in Routes : Eligible(r, context, circuit[r].open, MaxCall)}) :
           broker' = [broker EXCEPT ![w] =
               IF routes = <<>> THEN [Idle EXCEPT !.pc = "hibernate", !.reason = "no_eligible_route"]
               ELSE [Idle EXCEPT !.pc = "claim", !.routes = routes, !.next = 1]]
    /\ UNCHANGED <<context, attempts, circuit, keys, sent, answers, abandoned>>

\* A caller that submits the same key under another id is given the completed
\* result; before there is one it is told to come back.
RunAgain ==
    /\ request.completed # 0
    /\ answers' = answers \cup {request.completed}
    /\ UNCHANGED <<context, db, broker, sent, abandoned, runs>>

\* claim_attempt compares lease_until with the start of its transaction, so an
\* attempt that expired since still counts as active.
Active_Unexpired == {a \in DOMAIN attempts : attempts[a].status = "CREATED" /\ ~attempts[a].expired}
Active == {a \in DOMAIN attempts : attempts[a].status = "CREATED"}

MayClaim == request.completed = 0 /\ Active_Unexpired = {}

claim_attempt(w) ==
    /\ At(w, "claim") /\ MayClaim
    /\ attempts' = Append(attempts, NewAttempt(Route(w)))
    /\ request' = [request EXCEPT !.status = "ATTEMPTING"]
    /\ broker' = [broker EXCEPT ![w].pc = "reserve", ![w].attempt = Len(attempts')]
    /\ UNCHANGED <<context, circuit, keys, sent, answers, abandoned, runs>>

ClaimRefused(w) ==
    /\ At(w, "claim")
    /\ request.completed # 0 \/ Active # {}
    /\ Stop(w, "lease_superseded")
    /\ UNCHANGED <<context, db, sent, answers, abandoned, runs>>

\* reserve_cost
ReservedWith(w) == request.reserved - Mine(w).cost + Reservation(Route(w))
Affordable_Accrued(w) == request.accrued + Reservation(Route(w)) <= MaxTotal   \* variant: open calls are free
Affordable(w) == request.accrued + ReservedWith(w) <= MaxTotal

reserve_cost(w) ==
    /\ At(w, "reserve") /\ Mine(w).status = "CREATED"
    /\ Affordable(w)
    /\ request' = [request EXCEPT !.reserved = ReservedWith(w)]
    /\ attempts' = [attempts EXCEPT ![broker[w].attempt].cost = Reservation(Route(w)),
                                    ![broker[w].attempt].held = Reservation(Route(w))]
    /\ sent' = sent \cup {[route |-> Route(w), prompt |-> context.prompt, memory |-> context.memory]}
    /\ Goto(w, "call")
    /\ UNCHANGED <<context, circuit, keys, answers, abandoned, runs>>

\* finish_attempt: a result that is late in any way is billed and not used.
Stale(a, status) ==
    \/ a # Len(attempts)
    \/ attempts[a].expired
    \/ request.completed # 0 /\ status \in Accepted

finish_attempt_Forgiving(a, status, charge) ==   \* variant: a late answer is not billed
    LET kept == IF Stale(a, status) THEN "HIBERNATED" ELSE status
    IN  /\ attempts' = [attempts EXCEPT ![a].status = kept, ![a].cost = charge,
                                           ![a].held = Min({@, charge})]
        /\ request' = [request EXCEPT
               !.reserved = @ - attempts[a].cost,
               !.accrued = IF kept = "HIBERNATED" THEN @ ELSE @ + charge,
               !.completed = IF kept \in Accepted THEN a ELSE @,
               !.status = IF kept \in Accepted THEN kept ELSE @]

finish_attempt(a, status, charge) ==
    LET kept == IF Stale(a, status) THEN "HIBERNATED" ELSE status
    IN  /\ attempts' = [attempts EXCEPT ![a].status = kept, ![a].cost = charge,
                                           ![a].held = Min({@, charge})]
        /\ request' = [request EXCEPT
               !.reserved = @ - attempts[a].cost,
               !.accrued = @ + charge,
               !.completed = IF kept \in Accepted THEN a ELSE @,
               !.status = IF kept \in Accepted THEN kept ELSE @]

\* The budget does not allow the call: the attempt ends without one.
BudgetDenied(w) ==
    /\ At(w, "reserve") /\ ~Affordable(w)
    /\ finish_attempt(broker[w].attempt, "HIBERNATED", 0)
    /\ broker' = [broker EXCEPT ![w].pc = "note", ![w].error = "budget_denied"]
    /\ UNCHANGED <<context, circuit, keys, sent, answers, abandoned, runs>>

AfterFinish_Trusting(w, status, error) ==   \* variant: the backend's verdict is ignored
    broker' = [broker EXCEPT ![w].pc = "outcome", ![w].status = status, ![w].error = error]

AfterFinish(w, status, error) ==
    broker' = IF Stale(broker[w].attempt, status)
              THEN [broker EXCEPT ![w].pc = "hibernate", ![w].reason = "late_result_deduplicated"]
              ELSE [broker EXCEPT ![w].pc = "outcome", ![w].status = status, ![w].error = error]

\* The provider answers: accepted, truncated (retryable) or unusable.
Answered(w, status, usage) ==
    /\ At(w, "call")
    /\ status \in Verdicts
    /\ finish_attempt(broker[w].attempt, status, _response_cost(Route(w), usage, status))
    /\ AfterFinish(w, status, None)
    /\ UNCHANGED <<context, circuit, keys, sent, answers, abandoned, runs>>

\* _finish_transport_failure: a timeout, a transport error, or any other
\* Exception in the adapter, the validator or the first finish of an answer.
CallFailed_Unfinished(w, status) ==   \* variant: the exception leaves the attempt open
    /\ At(w, "call")
    /\ status \in Failures
    /\ Stop(w, "adapter_failure")
    /\ UNCHANGED <<context, db, sent, answers, abandoned, runs>>

CallFailed(w, status) ==
    /\ At(w, "call")
    /\ status \in Failures
    /\ finish_attempt(broker[w].attempt, status, FailureCost(Route(w), status))
    /\ AfterFinish(w, status, status)
    /\ UNCHANGED <<context, circuit, keys, sent, answers, abandoned, runs>>

record_route_outcome(w) ==
    /\ At(w, "outcome")
    /\ LET failed == IF broker[w].status \in Accepted THEN 0 ELSE circuit[Route(w)].failures + 1
       IN  circuit' = [circuit EXCEPT ![Route(w)] = [failures |-> failed, open |-> failed >= Threshold]]
    /\ Goto(w, "note")
    /\ UNCHANGED <<context, request, attempts, keys, sent, answers, abandoned, runs>>

\* append_event.  The key of a completed attempt holds its id and is new; the
\* keys of a denial and of a failure hold the route and the kind of error only.
NoteKey(w) == <<"note", Route(w).id, broker[w].error>>

\* What run does with the result of an attempt.
NextRoute(w) ==
    LET used == {broker[w].routes[k].domain : k \in 1..broker[w].next}
    IN  {k \in broker[w].next + 1..Len(broker[w].routes) : broker[w].routes[k].domain \notin used}

Continue(w) ==
    LET b == broker[w]
    IN  IF b.error = "budget_denied" THEN Stop(w, "budget_exhausted")
        ELSE IF b.status \in Accepted THEN broker' = [broker EXCEPT ![w] = Idle]
        ELSE IF b.status = "RETRYABLE_FAILURE" /\ b.retry < Retries
             THEN broker' = [broker EXCEPT ![w].pc = "claim", ![w].retry = @ + 1]
        ELSE IF NextRoute(w) = {} THEN Stop(w, "all_independent_routes_failed")
        ELSE broker' = [broker EXCEPT ![w].pc = "claim", ![w].retry = 0,
                                      ![w].next = Min(NextRoute(w))]

append_event(w) ==
    /\ At(w, "note")
    /\ broker[w].error = None \/ NoteKey(w) \notin keys
    /\ keys' = IF broker[w].error = None THEN keys ELSE keys \cup {NoteKey(w)}
    /\ answers' = IF broker[w].status \in Accepted THEN answers \cup {broker[w].attempt} ELSE answers
    /\ Continue(w)
    /\ UNCHANGED <<context, request, attempts, circuit, sent, abandoned, runs>>

\* hibernate
HibernateKey(w) == <<"hibernate", broker[w].reason>>

hibernate(w) ==
    /\ At(w, "hibernate")
    /\ \/ /\ request.completed # 0
          /\ UNCHANGED db
       \/ /\ request.completed = 0 /\ HibernateKey(w) \notin keys
          /\ keys' = keys \cup {HibernateKey(w)}
          /\ request' = [request EXCEPT !.status = "HIBERNATED"]
          /\ UNCHANGED <<attempts, circuit>>
    /\ broker' = [broker EXCEPT ![w] = Idle]
    /\ UNCHANGED <<context, sent, answers, abandoned, runs>>

\* IDEMPOTENCY_CONFLICT leaves run as an exception.
Raise(w) ==
    /\ \/ At(w, "note") /\ broker[w].error # None /\ NoteKey(w) \in keys
       \/ At(w, "hibernate") /\ request.completed = 0 /\ HibernateKey(w) \in keys
    /\ Goto(w, "failed")
    /\ UNCHANGED <<context, db, sent, answers, abandoned, runs>>

Leave(w) ==
    /\ At(w, "failed")
    /\ broker' = [broker EXCEPT ![w] = Idle]
    /\ UNCHANGED <<context, db, sent, answers, abandoned, runs>>

-------------------------------------------------------------------------------
(* The rest of the backend, and the environment *)

revive(reason) ==
    /\ request.status = "HIBERNATED" /\ request.completed = 0
    /\ <<"revive", reason>> \notin keys
    /\ keys' = keys \cup {<<"revive", reason>>}
    /\ request' = [request EXCEPT !.status = "ADMITTED"]
    /\ UNCHANGED <<context, attempts, circuit, broker, sent, answers, abandoned, runs>>

revive_route(r, reason) ==
    /\ circuit[r].open
    /\ <<"revive_route", r, reason>> \notin keys
    /\ keys' = keys \cup {<<"revive_route", r, reason>>}
    /\ circuit' = [circuit EXCEPT ![r] = [failures |-> 0, open |-> FALSE]]
    /\ UNCHANGED <<context, request, attempts, broker, sent, answers, abandoned, runs>>

reconcile_attempt_cost_Open(a, invoice) ==   \* variant: an open attempt is reconciled
    /\ <<"reconcile", a, invoice>> \notin keys
    /\ keys' = keys \cup {<<"reconcile", a, invoice>>}
    /\ request' = [request EXCEPT !.accrued = @ - attempts[a].cost + invoice]
    /\ attempts' = [attempts EXCEPT ![a].cost = invoice, ![a].held = Min({@, invoice})]
    /\ UNCHANGED <<context, circuit, broker, sent, answers, abandoned, runs>>

reconcile_attempt_cost(a, invoice) ==
    /\ attempts[a].status # "CREATED"
    /\ <<"reconcile", a, invoice>> \notin keys
    /\ keys' = keys \cup {<<"reconcile", a, invoice>>}
    /\ request' = [request EXCEPT !.accrued = @ - attempts[a].cost + invoice]
    /\ attempts' = [attempts EXCEPT ![a].cost = invoice, ![a].held = Min({@, invoice})]
    /\ UNCHANGED <<context, circuit, broker, sent, answers, abandoned, runs>>

mark_decision_useful(a) ==
    /\ request.completed = a /\ attempts[a].status = "SEMANTIC_ACCEPTED"
    /\ attempts' = [attempts EXCEPT ![a].status = "DECISION_USEFUL"]
    /\ request' = [request EXCEPT !.status = "DECISION_USEFUL"]
    /\ UNCHANGED <<context, circuit, keys, broker, sent, answers, abandoned, runs>>

LeaseExpires(a) ==
    /\ attempts[a].status = "CREATED" /\ ~attempts[a].expired
    /\ attempts' = [attempts EXCEPT ![a].expired = TRUE]
    /\ UNCHANGED <<context, request, circuit, keys, broker, sent, answers, abandoned, runs>>

-------------------------------------------------------------------------------
(* Ways out of run that finish nothing.                                     *)

\* Nobody comes back to the attempt the process worked on.
Abandon(w, cause) ==
    /\ abandoned' = IF At(w, "reserve") \/ At(w, "call")
                    THEN abandoned \cup {[attempt |-> broker[w].attempt, cause |-> cause]}
                    ELSE abandoned
    /\ broker' = [broker EXCEPT ![w] = Idle]
    /\ UNCHANGED <<context, db, sent, answers, runs>>

Crash(w) == ~At(w, "idle") /\ Abandon(w, "died")

\* CancelledError is raised where run awaits: at the provider (or the validator)
\* and in the sleep before a retry.  It is no Exception, so _attempt does not
\* catch it.
Cancelled(w) ==
    /\ At(w, "call") \/ (At(w, "claim") /\ broker[w].retry > 0)
    /\ Abandon(w, "cancelled")

\* A backend call raises: the statement timeout, or a lost connection.  In reserve
\* and in the handlers of a failed call nothing catches it.  The finish of an
\* answered call is tried again as a failure, which is CallFailed, or raises too:
\* for the same reason, or because the first one was committed and its key is
\* taken.  A call that was committed before it raised is its action and then this
\* one (for reserve_cost, sent then holds a call that was never made).
BackendFails(w) ==
    /\ ~At(w, "idle") /\ ~At(w, "failed")
    /\ Abandon(w, "backend")

Step(w) ==
    \/ run(w) \/ claim_attempt(w) \/ ClaimRefused(w) \/ reserve_cost(w) \/ BudgetDenied(w)
    \/ \E s \in Verdicts, u \in Usages : Answered(w, s, u)
    \/ \E s \in Failures : CallFailed(w, s)
    \/ record_route_outcome(w) \/ append_event(w) \/ hibernate(w) \/ Raise(w) \/ Leave(w)

Next ==
    \/ \E in \in Inputs : Compile(in)
    \/ \E in \in Inputs : \E item \in Items(in) : Expand(item)
    \/ \E w \in Workers : Step(w) \/ Crash(w) \/ Cancelled(w) \/ BackendFails(w)
    \/ RunAgain
    \/ \E reason \in Reasons : revive(reason)
    \/ \E r \in Routes, reason \in Reasons : revive_route(r, reason)
    \/ \E a \in DOMAIN attempts : \E c \in Invoices : reconcile_attempt_cost(a, c)
    \/ \E a \in DOMAIN attempts : mark_decision_useful(a) \/ LeaseExpires(a)

Spec == Init /\ [][Next]_vars

-------------------------------------------------------------------------------
(* Properties *)

\* Rows are well formed; a process past its claim works on an attempt of its own
\* route, and two processes never on the same one.
TypeOK ==
    /\ request.reserved \in Nat /\ request.accrued \in Nat
    /\ request.completed \in 0..Len(attempts)
    /\ \A a \in DOMAIN attempts :
           attempts[a].status \in Statuses
    /\ \A w \in Workers : At(w, "reserve") \/ At(w, "call") =>
           /\ Mine(w).status = "CREATED" /\ Mine(w).route = Route(w)
           /\ \A v \in Workers \ {w} : broker[v].attempt # broker[w].attempt

CostOf(rows, S) == MapThenSumSet(LAMBDA a : rows[a].cost, S)
Overrun(rows, S) == MapThenSumSet(LAMBDA a : rows[a].cost - rows[a].held, S)

\* The two totals of a request are the sums of its attempts, open ones reserved
\* and ended ones accrued, however answers, late answers, denials, crashes and
\* invoices interleave: no spend disappears and none is counted twice
\* (finish_attempt, reconcile_attempt_cost).
CostsAddUp ==
    /\ request.reserved = CostOf(attempts, Active)
    /\ request.accrued = CostOf(attempts, DOMAIN attempts \ Active)

\* Spend passes max_total_attempt_cost_usd only by what providers charged or
\* invoiced beyond the least their call had been booked with; attempts that never
\* report still count with their reservation (reserve_cost).
CeilingHolds ==
    request.accrued + request.reserved <= MaxTotal + Overrun(attempts, DOMAIN attempts)

\* Whatever run itself makes of an attempt - an answer, a refusal, a truncated or
\* late result, a timeout, a transport error, an exception of adapter or validator,
\* a denied budget - ends it before run goes on or returns.  Open are exactly the
\* attempts a process works on and those it abandoned: by its death, by a
\* cancellation, or because the backend raised.  Nothing ever closes the latter; one
\* that was cancelled at the provider keeps its whole reservation (_attempt,
\* _finish_transport_failure).
InHand == {broker[w].attempt : w \in {v \in Workers : At(v, "reserve") \/ At(v, "call")}}
Abandoned == {x.attempt : x \in abandoned}

OpenAttemptsKnown ==
    /\ Active = InHand \cup Abandoned
    /\ InHand \cap Abandoned = {}
    /\ \A x \in abandoned : x.cause = "cancelled" =>
           attempts[x.attempt].cost = Reservation(attempts[x.attempt].route)

\* Every caller that is given an artifact is given that of one attempt, the
\* completed one, whichever process or route was slower (finish_attempt).
OneAnswer ==
    /\ answers \subseteq {request.completed}
    /\ \A a \in DOMAIN attempts : attempts[a].status \in Accepted => a = request.completed

\* Evidence reaches a provider, inline or by a tool read, only on a route that is
\* cleared for it, also when the call is a fallback from the route the context was
\* compiled for; confidential evidence only where it is not retained or trained on.
EvidenceStaysCleared ==
    \A call \in sent : \A item \in call.prompt :
        /\ item.rank # SECRET /\ item.licensed
        /\ item.rank <= call.route.clearance
        /\ item.rank >= CONFIDENTIAL => call.route.retentionKnown /\ call.route.trains = "no"

\* docs/inference.md: failures use independent fallback and durable hibernation.
\* A run that gives up leaves the request completed or hibernated.
FailuresHibernate ==
    \A w \in Workers : At(w, "failed") => request.completed # 0 \/ request.status = "HIBERNATED"
===============================================================================
