------------------------------ MODULE Requests ------------------------------
(* The way of one HTTP request through the Node server of MoroJS           *)
(* (http/http-server.ts), the unified router (routing/unified-router.ts)   *)
(* and the code of the application they call: hooks, middleware, handlers. *)
(*                                                                         *)
(* JavaScript runs one callback at a time.  The pipeline of a request is   *)
(* `stage`, with `at` the position in the middleware it is working         *)
(* through; it gives up the thread where the code awaits (`Yielded`), and  *)
(* there everything that goes on beside it may happen: middleware that     *)
(* called next() early and still runs (`stray`), responses that are being  *)
(* compressed (`deferred`), the 'finish' event of the response.            *)
EXTENDS Naturals, Sequences

CONSTANTS
    Chains,       \* sequences of "plain" and "error" middleware (global, or of a direct route)
    PhaseLists,   \* sequences of "mw" and "core": the execution order of a route
    Routes,       \* subset of {"none", "fast", "phased", "direct"}
    Compression,  \* whether res.json may compress: res.headersSent then comes later
    MaxStray      \* bound: pieces of application code that run on by themselves

ASSUME RequestsAssumption ==
    /\ Chains \subseteq Seq({"plain", "error"})
    /\ PhaseLists \subseteq Seq({"mw", "core"})
    /\ Routes \subseteq {"none", "fast", "phased", "direct"}
    /\ Compression \in BOOLEAN
    /\ MaxStray \in Nat

VARIABLES
    req,        \* what the request is and what is registered for it
    stage,      \* where handleRequest has got to
    at,         \* the middleware or phase the loop stands at
    waiting,    \* what the pipeline awaits: a promise, a callback or nothing
    err,        \* activeError, or the error being answered
    late,       \* the middleware of a direct route went on in a promise callback
    sent,       \* res.headersSent
    answered,   \* some code has called res.json (or another helper)
    deferred,   \* responses being compressed
    written,    \* responses written to the client
    finished,   \* the 'finish' event was emitted
    hooksOn,    \* res.once('finish', response hooks) was called
    hookRuns,   \* times the response hooks were run
    errRuns,    \* times the error hooks were run
    handlerRuns, \* times the handler of the route was called
    stray,      \* application code that runs on beside the pipeline
    lost        \* an error became an unhandled rejection

flow == <<stage, at, waiting, err, late>>
response == <<sent, answered, deferred, written>>
hooks == <<finished, hooksOn, hookRuns>>
counts == <<errRuns, handlerRuns, stray, lost>>
vars == <<req, flow, response, hooks, counts>>

Stages == {"start", "body", "hooks", "global", "router", "phases", "handler",
           "legacy", "direct", "directHandler", "error", "done"}
Answers == IF Compression THEN {"none", "now", "deferred"} ELSE {"none", "now"}

Requests == [body : BOOLEAN, hooks : BOOLEAN, errorHandler : BOOLEAN, chain : Chains,
             route : Routes, steps : Chains \cup PhaseLists]

\* A direct route has middleware of its own, a phased one an execution order
\* that is not empty, the others neither.
Init ==
    /\ req \in Requests
    /\ CASE req.route = "direct" -> req.steps \in Chains
         [] req.route = "phased" -> req.steps \in PhaseLists /\ req.steps # << >>
         [] OTHER -> req.steps = << >>
    /\ stage = "start" /\ at = 1 /\ waiting = "no" /\ err = "none" /\ late = FALSE
    /\ sent = FALSE /\ answered = FALSE /\ deferred = 0 /\ written = 0
    /\ finished = FALSE /\ hooksOn = FALSE /\ hookRuns = 0
    /\ errRuns = 0 /\ handlerRuns = 0 /\ stray = 0 /\ lost = FALSE

-----------------------------------------------------------------------------
(* Answering                                                                *)

\* res.json: nothing when the headers are out; sent in the same tick, or only
\* once the body is compressed.
Answer(how) ==
    /\ sent' = (sent \/ how = "now")
    /\ answered' = (answered \/ how # "none")
    /\ deferred' = IF how = "deferred" /\ ~sent THEN deferred + 1 ELSE deferred
    /\ written' = IF how = "now" /\ ~sent THEN written + 1 ELSE written

\* The compressed body is there; it is dropped when another answer went first.
CompressedAnyway ==  \* mutant
    /\ deferred' = deferred - 1
    /\ sent' = TRUE
    /\ written' = written + 1
    /\ UNCHANGED answered
Compressed ==
    /\ deferred' = deferred - 1
    /\ sent' = TRUE
    /\ written' = IF sent THEN written ELSE written + 1
    /\ UNCHANGED answered

\* res.setHeader and res.end of the 404 template: nothing is tested here.
NotFound ==
    /\ sent' = TRUE /\ answered' = TRUE /\ written' = written + 1
    /\ UNCHANGED deferred

-----------------------------------------------------------------------------
(* Moving through the pipeline                                              *)

GoTo(s) ==
    stage' = s /\ at' = 1 /\ waiting' = "no" /\ UNCHANGED <<err, late>>

Advance == at' = at + 1 /\ waiting' = "no" /\ UNCHANGED <<stage, late>>

\* onRequestError and invokeErrorHandler begin by starting the error hooks,
\* which nobody waits for.
Fail(e) ==
    /\ stage' = "error" /\ at' = 1 /\ waiting' = "no" /\ err' = e /\ UNCHANGED late
    /\ errRuns' = errRuns + 1

\* The thread is given up: every await, and before the request is dispatched.
Yielded ==
    \/ waiting # "no"
    \/ stage \in {"start", "body", "hooks", "done"}
    \/ stage = "phases" /\ at > 1

GoesOn(keeps) ==
    IF keeps THEN stray < MaxStray /\ stray' = stray + 1 ELSE UNCHANGED stray

\* handleRequest: the slow path for a body, hooks or global middleware.
Arrive ==
    /\ stage = "start"
    /\ GoTo(IF req.body THEN "body" ELSE IF req.hooks THEN "hooks" ELSE "global")
    /\ UNCHANGED <<req, response, hooks, counts>>

ParseBody ==
    /\ stage = "body"
    /\ GoTo(IF req.hooks THEN "hooks" ELSE "global")
    /\ UNCHANGED <<req, response, hooks, counts>>

\* A malformed body, or one above the limit.
BodyFails ==
    /\ stage = "body"
    /\ \E e \in {"error", "tooLarge"} : Fail(e)
    /\ UNCHANGED <<req, response, hooks, handlerRuns, stray, lost>>

\* A request hook answers and may still run afterwards.
HookAnswers ==
    /\ stage = "hooks" /\ ~answered
    /\ \E how \in Answers \ {"none"} : Answer(how)
    /\ UNCHANGED <<req, flow, hooks, counts>>

\* Every request hook has returned: the response hooks are registered, and the
\* request goes on unless a hook has answered it.
HooksReturn ==
    /\ stage = "hooks"
    /\ hooksOn' = TRUE
    /\ GoTo(IF sent THEN "done" ELSE "global")
    /\ UNCHANGED <<req, response, finished, hookRuns, counts>>

HooksThrow ==
    /\ stage = "hooks"
    /\ Fail("error")
    /\ UNCHANGED <<req, response, hooks, handlerRuns, stray, lost>>

-----------------------------------------------------------------------------
(* dispatchMiddleware: global middleware, and that of a direct route        *)

InChain == stage \in {"global", "direct"} /\ waiting = "no"
Chain == IF stage = "global" THEN req.chain ELSE req.steps
\* Plain middleware runs while no error is active, error middleware while one is.
Takes(kind) == (kind = "error") <=> (err # "none")

SkipMiddleware ==
    /\ InChain /\ at <= Len(Chain) /\ ~sent /\ ~Takes(Chain[at])
    /\ Advance /\ UNCHANGED err
    /\ UNCHANGED <<req, response, hooks, counts>>

\* The call settles at once, by next() or by throwing; a promise it returned is
\* left to itself.
MiddlewareSettles ==
    /\ InChain /\ at <= Len(Chain) /\ ~sent /\ Takes(Chain[at])
    /\ \E how \in Answers, e \in {"none", "error"}, keeps \in BOOLEAN :
          Answer(how) /\ err' = e /\ GoesOn(keeps)
    /\ Advance
    /\ UNCHANGED <<req, hooks, errRuns, handlerRuns, lost>>

\* It neither called next() nor threw: the rest of the chain waits for its
\* promise, or for a later next().
MiddlewareWaits ==
    /\ InChain /\ at <= Len(Chain) /\ ~sent /\ Takes(Chain[at])
    /\ \E how \in Answers : Answer(how)
    /\ waiting' \in {"promise", "callback"}
    /\ late' = (late \/ stage = "direct")
    /\ UNCHANGED <<req, stage, at, err, hooks, counts>>

\* next(e), or the promise settles, whichever comes first.
MiddlewareResumes ==
    /\ stage \in {"global", "direct"} /\ waiting # "no"
    /\ \E e \in {"none", "error"}, keeps \in BOOLEAN : err' = e /\ GoesOn(keeps)
    /\ Advance
    /\ UNCHANGED <<req, response, hooks, errRuns, handlerRuns, lost>>

\* The chain returns: after the global one the request is routed unless it has
\* been answered; after that of a direct route the handler runs in any case.
ChainReturns ==
    /\ stage' = IF stage = "direct" THEN "directHandler" ELSE IF sent THEN "done" ELSE "router"
    /\ at' = 1 /\ err' = "none" /\ UNCHANGED <<waiting, late>>

\* Answered meanwhile: the loop returns, and an error that is active is dropped.
ChainStops ==
    /\ InChain /\ at <= Len(Chain) /\ sent
    /\ ChainReturns
    /\ UNCHANGED <<req, response, hooks, counts>>

ChainEnds ==
    /\ InChain /\ at > Len(Chain) /\ err = "none"
    /\ ChainReturns
    /\ UNCHANGED <<req, response, hooks, counts>>

ChainThrowsNothing ==  \* mutant
    /\ InChain /\ at > Len(Chain) /\ err # "none"
    /\ GoTo("done")
    /\ UNCHANGED <<req, response, hooks, counts>>
ChainThrows ==
    /\ InChain /\ at > Len(Chain) /\ err # "none"
    /\ Fail("error")
    /\ UNCHANGED <<req, response, hooks, handlerRuns, stray, lost>>

-----------------------------------------------------------------------------
(* The unified router                                                       *)

\* No route of the router matches: the table of direct routes is tried.
Unrouted ==
    /\ stage = "router" /\ req.route \in {"none", "direct"}
    /\ GoTo(IF sent THEN "done" ELSE "legacy")
    /\ UNCHANGED <<req, response, hooks, counts>>

\* The handler is called.  It answers by itself or by the value it returns,
\* at once or when its promise settles.
CallHandler(OnThrow) ==
    /\ handlerRuns' = handlerRuns + 1
    /\ \E how \in Answers :
          /\ Answer(how)
          /\ \/ GoTo("done") /\ UNCHANGED <<errRuns, lost>>
             \/ /\ stage' = "handler" /\ waiting' = "promise"
                /\ UNCHANGED <<at, err, late, errRuns, lost>>
             \/ OnThrow
    /\ UNCHANGED <<req, hooks, stray>>

FastRoute ==
    /\ stage = "router" /\ req.route = "fast"
    /\ CallHandler(Fail("error") /\ UNCHANGED lost)

PhasedRoute ==
    /\ stage = "router" /\ req.route = "phased"
    /\ GoTo("phases")
    /\ UNCHANGED <<req, response, hooks, counts>>

InPhase(kind) ==
    /\ stage = "phases" /\ waiting = "no" /\ ~sent
    /\ at <= Len(req.steps) /\ req.steps[at] = kind

\* Rate limit, validation and cache answer the request, let it pass or throw.
CorePhase ==
    /\ InPhase("core")
    /\ \E how \in Answers : Answer(how)
    /\ Advance /\ UNCHANGED err
    /\ UNCHANGED <<req, hooks, counts>>

\* Route middleware is done when it calls next (whatever it passes on) and
\* also when it returns without a promise; it may run on.
PhaseMiddleware ==
    /\ InPhase("mw")
    /\ \E how \in Answers, keeps \in BOOLEAN :
          /\ Answer(how)
          /\ \/ Advance /\ UNCHANGED err /\ GoesOn(keeps)
             \/ /\ waiting' = "promise"
                /\ UNCHANGED <<stage, at, err, late, stray>>
    /\ UNCHANGED <<req, hooks, errRuns, handlerRuns, lost>>

\* The phase throws, whichever it is; executeRoute catches it.
PhaseThrows ==
    /\ InPhase("mw") \/ InPhase("core") \/ (stage = "phases" /\ waiting # "no")
    /\ \E how \in Answers : Answer(how)
    /\ Fail("error")
    /\ UNCHANGED <<req, hooks, handlerRuns, stray, lost>>

PhaseResumes ==
    /\ stage = "phases" /\ waiting # "no"
    /\ \E keeps \in BOOLEAN : GoesOn(keeps)
    /\ Advance /\ UNCHANGED err
    /\ UNCHANGED <<req, response, hooks, errRuns, handlerRuns, lost>>

\* The phases are over, or one has answered: the handler runs in the second
\* case only if the answer is not out yet.
PhasesEndAnyway ==  \* mutant
    /\ stage = "phases" /\ waiting = "no" /\ at > Len(req.steps)
    /\ CallHandler(Fail("error") /\ UNCHANGED lost)
PhasesEnd ==
    /\ stage = "phases" /\ waiting = "no" /\ ~sent /\ at > Len(req.steps)
    /\ CallHandler(Fail("error") /\ UNCHANGED lost)

PhasesStop ==
    /\ stage = "phases" /\ waiting = "no" /\ sent
    /\ GoTo("done")
    /\ UNCHANGED <<req, response, hooks, counts>>

-----------------------------------------------------------------------------
(* dispatchLegacyRoute                                                      *)

NoDirectRoute ==
    /\ stage = "legacy" /\ req.route = "none"
    /\ NotFound /\ GoTo("done")
    /\ UNCHANGED <<req, hooks, counts>>

DirectRoute ==
    /\ stage = "legacy" /\ req.route = "direct"
    /\ GoTo("direct")
    /\ UNCHANGED <<req, response, hooks, counts>>

\* runHandler: an error it throws is caught by the server, except when it runs
\* in the callback of the middleware's promise.
DirectHandler ==
    /\ stage = "directHandler"
    /\ CallHandler(IF late THEN GoTo("done") /\ lost' = TRUE /\ UNCHANGED errRuns
                           ELSE Fail("error") /\ UNCHANGED lost)

-----------------------------------------------------------------------------
(* The promise of the handler                                               *)

HandlerReturns ==
    /\ stage = "handler"
    /\ \E how \in Answers : Answer(how)
    /\ GoTo("done")
    /\ UNCHANGED <<req, hooks, counts>>

HandlerRejects ==
    /\ stage = "handler"
    /\ Fail("error")
    /\ UNCHANGED <<req, response, hooks, handlerRuns, stray, lost>>

-----------------------------------------------------------------------------
(* onRequestError, and the router's own error path                          *)

ErrorHandlerRuns == req.errorHandler /\ ~sent /\ err # "tooLarge"

\* Too large a body, or no error handler: the default answer, if none is out.
AnswerError ==
    /\ stage = "error" /\ waiting = "no" /\ ~ErrorHandlerRuns
    /\ Answer("now") /\ GoTo("done")
    /\ UNCHANGED <<req, hooks, counts>>

\* The error handler answers, answers nothing or throws: whatever it did, the
\* default answer follows unless the headers are out.
RunErrorHandler ==
    /\ stage = "error" /\ waiting = "no" /\ ErrorHandlerRuns
    /\ \E how \in Answers :
          /\ answered' = TRUE /\ sent' = TRUE /\ written' = written + 1
          /\ deferred' = IF how = "deferred" THEN deferred + 1 ELSE deferred
    /\ GoTo("done")
    /\ UNCHANGED <<req, hooks, counts>>

ErrorHandlerWaits ==
    /\ stage = "error" /\ waiting = "no" /\ ErrorHandlerRuns
    /\ \E how \in Answers : Answer(how)
    /\ waiting' = "promise"
    /\ UNCHANGED <<req, stage, at, err, late, hooks, counts>>

ErrorHandlerTrusted ==  \* mutant
    /\ stage = "error" /\ waiting # "no"
    /\ \E how \in {"none", "now"} : Answer(how)
    /\ GoTo("done")
    /\ UNCHANGED <<req, hooks, counts>>
ErrorHandlerSettles ==
    /\ stage = "error" /\ waiting # "no"
    /\ Answer("now") /\ GoTo("done")
    /\ UNCHANGED <<req, hooks, counts>>

-----------------------------------------------------------------------------
(* Beside the pipeline                                                      *)

\* The code the pipeline waits for answers and goes on.
AwaitedAnswers ==
    /\ waiting # "no" /\ ~answered
    /\ \E how \in Answers \ {"none"} : Answer(how)
    /\ UNCHANGED <<req, flow, hooks, counts>>

\* So does code the pipeline no longer waits for, which may also just end.
StrayEnds ==
    /\ Yielded /\ stray > 0
    /\ stray' = stray - 1
    /\ \E how \in Answers : Answer(how)
    /\ UNCHANGED <<req, flow, hooks, errRuns, handlerRuns, lost>>

Flush ==
    /\ Yielded /\ deferred > 0
    /\ Compressed
    /\ UNCHANGED <<req, flow, hooks, counts>>

Finish ==
    /\ Yielded /\ sent /\ ~finished
    /\ finished' = TRUE
    /\ hookRuns' = IF hooksOn THEN hookRuns + 1 ELSE hookRuns
    /\ UNCHANGED <<req, flow, response, hooksOn, counts>>

Chained == SkipMiddleware \/ MiddlewareSettles \/ MiddlewareWaits \/ ChainStops
           \/ ChainEnds \/ ChainThrows
Routed == Unrouted \/ FastRoute \/ PhasedRoute \/ CorePhase \/ PhaseMiddleware
          \/ PhaseThrows \/ PhasesEnd \/ PhasesStop
          \/ NoDirectRoute \/ DirectRoute \/ DirectHandler
Erring == AnswerError \/ RunErrorHandler \/ ErrorHandlerWaits \/ ErrorHandlerSettles
Resuming == MiddlewareResumes \/ PhaseResumes \/ AwaitedAnswers

Next ==
    \/ Arrive \/ ParseBody \/ BodyFails \/ HookAnswers \/ HooksReturn \/ HooksThrow
    \/ Chained \/ Routed \/ HandlerReturns \/ HandlerRejects \/ Erring
    \/ Resuming \/ StrayEnds \/ Flush \/ Finish

Spec == Init /\ [][Next]_vars

(* The code's own steps are taken; the application's hooks, handlers and    *)
(* error handlers end; middleware that has not answered goes on sometime    *)
(* (one that has answered may keep the chain for ever).                     *)
Fairness ==
    /\ WF_vars(Arrive \/ ParseBody \/ BodyFails \/ HooksReturn \/ HooksThrow
               \/ Chained \/ Routed \/ HandlerReturns \/ HandlerRejects \/ Erring)
    /\ WF_vars(~answered /\ Resuming)
    /\ WF_vars(Flush)

FairSpec == Spec /\ Fairness

-----------------------------------------------------------------------------
(* Properties                                                               *)

\* The types of the variables.
TypeOK ==
    /\ req \in Requests
    /\ stage \in Stages
    /\ at \in 1 .. Len(Chain) + 1
    /\ waiting \in {"no", "promise", "callback"}
    /\ err \in {"none", "error", "tooLarge"}
    /\ late \in BOOLEAN /\ sent \in BOOLEAN /\ answered \in BOOLEAN
    /\ finished \in BOOLEAN /\ hooksOn \in BOOLEAN /\ lost \in BOOLEAN
    /\ deferred \in Nat /\ written \in Nat /\ handlerRuns \in Nat
    /\ hookRuns \in {0, 1} /\ errRuns \in {0, 1}
    /\ stray \in 0 .. MaxStray

\* A request is answered with one response, and headersSent tells that it was:
\* neither the 404 template, which is written without a test, nor an error
\* answer, a late middleware or a compressed body that is ready too late
\* follows a response that is out.
OneResponse == written = (IF sent THEN 1 ELSE 0)

\* An error the server or the router caught is reported to the error hooks
\* once, and the request does not end before a response is out, whatever the
\* error handler of the application does.
ErrorsAnswered ==
    /\ errRuns = (IF stage = "error" \/ (stage = "done" /\ err # "none") THEN 1 ELSE 0)
    /\ stage = "done" /\ err # "none" => sent

\* The handler of a route is called once at most, with no error active, and
\* after an answer only if that is still being compressed or if the route is a
\* direct one (whose middleware may have answered).
HandlerStartsFresh ==
    [][handlerRuns' # handlerRuns =>
          /\ handlerRuns = 0 /\ err = "none"
          /\ answered => deferred > 0 \/ req.route = "direct"]_vars

\* Every request gets a response, unless its handler ends without answering or
\* its error was lost.
Answered ==
    <>(sent \/ lost \/ (stage = "done" /\ ~answered /\ err = "none"))

=============================================================================
