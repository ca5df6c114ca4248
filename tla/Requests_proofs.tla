--------------------------- MODULE Requests_proofs ---------------------------
(* Proofs about Requests, for every set of middleware chains, execution     *)
(* orders and routes; and about Sessions, for every set of requests, ids,   *)
(* options and number of store failures.                                    *)
EXTENDS Requests, Sessions, TLAPS

-----------------------------------------------------------------------------
(* The inductive invariant                                                  *)

\* What is answered is out, or is being compressed.
OutHolds == /\ sent => answered
            /\ answered => sent \/ deferred > 0
            /\ deferred > 0 => answered

\* Nobody else runs between the test of the response and the 404 template.
RouterFresh == stage \in {"router", "legacy"} => ~sent /\ waiting = "no"

\* An error is active in a chain only, or is being answered.
ErrPlaces == /\ err # "none" => stage \in {"global", "direct", "error", "done"}
             /\ stage = "error" => err # "none"

\* The handler has not been called before its stage.
HandlerPlaces == handlerRuns = 0 \/ stage \in {"handler", "error", "done"}

\* The middleware that is awaited is in the list.
WaitPlaces ==
    waiting # "no" /\ stage \in {"global", "direct", "phases"} => at <= Len(Chain)

\* Only a direct route gets as far as the handler of one.
DirectPlaces ==
    stage \in {"direct", "directHandler"} => req.route = "direct"

\* The response hooks ran when the response was finished.
HooksPlaces == ~finished => hookRuns = 0

Shape == /\ at \in 1 .. Len(Chain) + 1
         /\ req \in Requests
         /\ stray \in 0 .. MaxStray

Counts == /\ deferred \in Nat /\ written \in Nat /\ handlerRuns \in Nat
          /\ hookRuns \in {0, 1} /\ errRuns \in {0, 1}

Kinds == /\ stage \in Stages
         /\ waiting \in {"no", "promise", "callback"}
         /\ err \in {"none", "error", "tooLarge"}
         /\ late \in BOOLEAN /\ sent \in BOOLEAN /\ answered \in BOOLEAN
         /\ finished \in BOOLEAN /\ hooksOn \in BOOLEAN /\ lost \in BOOLEAN

IInv == /\ Shape /\ Counts /\ Kinds
        /\ OutHolds /\ OneResponse /\ RouterFresh /\ ErrPlaces
        /\ ErrorsAnswered /\ HandlerPlaces /\ HooksPlaces /\ WaitPlaces /\ DirectPlaces

LEMMA TypeParts == TypeOK <=> Shape /\ Counts /\ Kinds
BY DEF TypeOK, Shape, Counts, Kinds

LEMMA InitIInv == Init => IInv
<1> SUFFICES ASSUME Init PROVE IInv
  OBVIOUS
<1>1. Shape
  <2>1. Len(req.chain) \in Nat /\ Len(req.steps) \in Nat
    BY RequestsAssumption DEF Init, Requests
  <2> QED
    BY <2>1, RequestsAssumption DEF Init, Shape, Chain
<1>2. Counts /\ Kinds
  BY DEF Init, Counts, Kinds, Stages
<1>3. OutHolds /\ OneResponse /\ RouterFresh /\ ErrPlaces
      /\ ErrorsAnswered /\ HandlerPlaces /\ HooksPlaces /\ WaitPlaces /\ DirectPlaces
  BY DEF Init, OutHolds, OneResponse, RouterFresh, ErrPlaces, ErrorsAnswered,
         HandlerPlaces, HooksPlaces, WaitPlaces, DirectPlaces
<1> QED
  BY <1>1, <1>2, <1>3 DEF IInv

-----------------------------------------------------------------------------
(* The steps                                                                *)

\* res.json keeps the response single.
LEMMA AnswerKeeps ==
    ASSUME Counts, Kinds, OutHolds, OneResponse,
           NEW how \in {"none", "now", "deferred"}, Answer(how)
    PROVE  /\ OutHolds' /\ OneResponse'
           /\ sent' \in BOOLEAN /\ answered' \in BOOLEAN
           /\ sent => sent'
<1>1. deferred \in Nat /\ written \in Nat
  BY DEF Counts
<1>2. sent \in BOOLEAN /\ answered \in BOOLEAN
  BY DEF Kinds
<1>3. CASE how = "none"
  BY <1>1, <1>2, <1>3 DEF OutHolds, OneResponse, Answer
<1>4. CASE how = "now"
  <2>1. sent' = TRUE /\ answered' = TRUE /\ written' = IF sent THEN written ELSE written + 1
    BY <1>2, <1>4 DEF Answer
  <2>2. written' = 1
    BY <2>1, <1>1 DEF OneResponse
  <2> QED
    BY <2>1, <2>2 DEF OutHolds, OneResponse
<1>5. CASE how = "deferred"
  <2>1. CASE sent
    BY <1>1, <1>2, <1>5, <2>1 DEF OutHolds, OneResponse, Answer
  <2>2. CASE ~sent
    <3>1. deferred' = deferred + 1 /\ answered' /\ sent' = FALSE /\ written' = written
      BY <1>5, <2>2 DEF Answer
    <3>2. deferred' > 0
      BY <3>1, <1>1
    <3> QED
      BY <3>1, <3>2, <2>2 DEF OutHolds, OneResponse
  <2> QED
    BY <2>1, <2>2
<1> QED
  BY <1>3, <1>4, <1>5

LEMMA NextIInv == IInv /\ [Next]_vars => IInv'
<1> SUFFICES ASSUME IInv, [Next]_vars PROVE IInv'
  OBVIOUS
<1> USE DEF flow, response, hooks, counts
<1>l. Len(req.chain) \in Nat /\ Len(req.steps) \in Nat
  BY RequestsAssumption DEF IInv, Shape, Requests
<1>1. CASE Arrive
  <2>1. Shape'
    BY <1>1, <1>l, RequestsAssumption
    DEF IInv, Shape, Chain, Kinds, WaitPlaces, Arrive, GoTo
  <2>2. Counts' /\ Kinds'
    BY <1>1 DEF IInv, Counts, Kinds, Stages, ErrorsAnswered, HooksPlaces, OneResponse,
       Arrive, GoTo
  <2>3. OutHolds' /\ OneResponse'
    BY <1>1 DEF IInv, Counts, Kinds, OutHolds, OneResponse, RouterFresh, Arrive, GoTo
  <2>4. RouterFresh' /\ ErrPlaces' /\ HandlerPlaces' /\ ErrorsAnswered'
    BY <1>1 DEF IInv, Counts, Kinds, Stages, OneResponse, RouterFresh, ErrPlaces,
       HandlerPlaces,
       ErrorsAnswered, Arrive, GoTo
  <2>5. HooksPlaces'
    BY <1>1 DEF IInv, HooksPlaces, Arrive, GoTo
  <2>6. WaitPlaces'
    BY <1>1, <1>l DEF IInv, Shape, Chain, Kinds, WaitPlaces, Arrive, GoTo
  <2>7. DirectPlaces'
    BY <1>1 DEF IInv, DirectPlaces, Arrive, GoTo
  <2> QED
    BY <2>1, <2>2, <2>3, <2>4, <2>5, <2>6, <2>7 DEF IInv
<1>2. CASE ParseBody
  <2>1. Shape'
    BY <1>2, <1>l, RequestsAssumption
    DEF IInv, Shape, Chain, Kinds, WaitPlaces, ParseBody, GoTo
  <2>2. Counts' /\ Kinds'
    BY <1>2 DEF IInv, Counts, Kinds, Stages, ErrorsAnswered, HooksPlaces, OneResponse,
       ParseBody, GoTo
  <2>3. OutHolds' /\ OneResponse'
    BY <1>2 DEF IInv, Counts, Kinds, OutHolds, OneResponse, RouterFresh, ParseBody, GoTo
  <2>4. RouterFresh' /\ ErrPlaces' /\ HandlerPlaces' /\ ErrorsAnswered'
    BY <1>2 DEF IInv, Counts, Kinds, Stages, OneResponse, RouterFresh, ErrPlaces,
       HandlerPlaces,
       ErrorsAnswered, ParseBody, GoTo
  <2>5. HooksPlaces'
    BY <1>2 DEF IInv, HooksPlaces, ParseBody, GoTo
  <2>6. WaitPlaces'
    BY <1>2, <1>l DEF IInv, Shape, Chain, Kinds, WaitPlaces, ParseBody, GoTo
  <2>7. DirectPlaces'
    BY <1>2 DEF IInv, DirectPlaces, ParseBody, GoTo
  <2> QED
    BY <2>1, <2>2, <2>3, <2>4, <2>5, <2>6, <2>7 DEF IInv
<1>3. CASE BodyFails
  <2>1. Shape'
    BY <1>3, <1>l, RequestsAssumption
    DEF IInv, Shape, Chain, Kinds, WaitPlaces, BodyFails, Fail
  <2>2. Counts' /\ Kinds'
    BY <1>3 DEF IInv, Counts, Kinds, Stages, ErrorsAnswered, HooksPlaces, OneResponse,
       BodyFails, Fail
  <2>3. OutHolds' /\ OneResponse'
    BY <1>3 DEF IInv, Counts, Kinds, OutHolds, OneResponse, RouterFresh, BodyFails, Fail
  <2>4. RouterFresh' /\ ErrPlaces' /\ HandlerPlaces' /\ ErrorsAnswered'
    BY <1>3 DEF IInv, Counts, Kinds, Stages, OneResponse, RouterFresh, ErrPlaces,
       HandlerPlaces,
       ErrorsAnswered, BodyFails, Fail
  <2>5. HooksPlaces'
    BY <1>3 DEF IInv, HooksPlaces, BodyFails, Fail
  <2>6. WaitPlaces'
    BY <1>3, <1>l DEF IInv, Shape, Chain, Kinds, WaitPlaces, BodyFails, Fail
  <2>7. DirectPlaces'
    BY <1>3 DEF IInv, DirectPlaces, BodyFails, Fail
  <2> QED
    BY <2>1, <2>2, <2>3, <2>4, <2>5, <2>6, <2>7 DEF IInv
<1>4. CASE HookAnswers
  <2>1. Shape'
    BY <1>4, <1>l, RequestsAssumption
    DEF IInv, Shape, Chain, Kinds, WaitPlaces, HookAnswers, Answer
  <2>2. Counts' /\ Kinds'
    BY <1>4 DEF IInv, Counts, Kinds, Stages, ErrorsAnswered, HooksPlaces, OneResponse,
       HookAnswers, Answer
  <2>3. OutHolds' /\ OneResponse'
    <3>1. \E how \in {"none", "now", "deferred"} : Answer(how)
      BY <1>4 DEF Answers, HookAnswers
    <3> QED
      BY <3>1, AnswerKeeps DEF IInv
  <2>4. RouterFresh' /\ ErrPlaces' /\ HandlerPlaces' /\ ErrorsAnswered'
    BY <1>4 DEF IInv, Counts, Kinds, Stages, OneResponse, RouterFresh, ErrPlaces,
       HandlerPlaces,
       ErrorsAnswered, HookAnswers, Answer
  <2>5. HooksPlaces'
    BY <1>4 DEF IInv, HooksPlaces, HookAnswers, Answer
  <2>6. WaitPlaces'
    BY <1>4, <1>l DEF IInv, Shape, Chain, Kinds, WaitPlaces, HookAnswers, Answer
  <2>7. DirectPlaces'
    BY <1>4 DEF IInv, DirectPlaces, HookAnswers, Answer
  <2> QED
    BY <2>1, <2>2, <2>3, <2>4, <2>5, <2>6, <2>7 DEF IInv
<1>5. CASE HooksReturn
  <2>1. Shape'
    BY <1>5, <1>l, RequestsAssumption
    DEF IInv, Shape, Chain, Kinds, WaitPlaces, HooksReturn, GoTo
  <2>2. Counts' /\ Kinds'
    BY <1>5 DEF IInv, Counts, Kinds, Stages, ErrorsAnswered, HooksPlaces, OneResponse,
       HooksReturn, GoTo
  <2>3. OutHolds' /\ OneResponse'
    BY <1>5 DEF IInv, Counts, Kinds, OutHolds, OneResponse, RouterFresh, HooksReturn, GoTo
  <2>4. RouterFresh' /\ ErrPlaces' /\ HandlerPlaces' /\ ErrorsAnswered'
    BY <1>5 DEF IInv, Counts, Kinds, Stages, OneResponse, RouterFresh, ErrPlaces,
       HandlerPlaces,
       ErrorsAnswered, HooksReturn, GoTo
  <2>5. HooksPlaces'
    BY <1>5 DEF IInv, HooksPlaces, HooksReturn, GoTo
  <2>6. WaitPlaces'
    BY <1>5, <1>l DEF IInv, Shape, Chain, Kinds, WaitPlaces, HooksReturn, GoTo
  <2>7. DirectPlaces'
    BY <1>5 DEF IInv, DirectPlaces, HooksReturn, GoTo
  <2> QED
    BY <2>1, <2>2, <2>3, <2>4, <2>5, <2>6, <2>7 DEF IInv
<1>6. CASE HooksThrow
  <2>1. Shape'
    BY <1>6, <1>l, RequestsAssumption
    DEF IInv, Shape, Chain, Kinds, WaitPlaces, HooksThrow, Fail
  <2>2. Counts' /\ Kinds'
    BY <1>6 DEF IInv, Counts, Kinds, Stages, ErrorsAnswered, HooksPlaces, OneResponse,
       HooksThrow, Fail
  <2>3. OutHolds' /\ OneResponse'
    BY <1>6 DEF IInv, Counts, Kinds, OutHolds, OneResponse, RouterFresh, HooksThrow, Fail
  <2>4. RouterFresh' /\ ErrPlaces' /\ HandlerPlaces' /\ ErrorsAnswered'
    BY <1>6 DEF IInv, Counts, Kinds, Stages, OneResponse, RouterFresh, ErrPlaces,
       HandlerPlaces,
       ErrorsAnswered, HooksThrow, Fail
  <2>5. HooksPlaces'
    BY <1>6 DEF IInv, HooksPlaces, HooksThrow, Fail
  <2>6. WaitPlaces'
    BY <1>6, <1>l DEF IInv, Shape, Chain, Kinds, WaitPlaces, HooksThrow, Fail
  <2>7. DirectPlaces'
    BY <1>6 DEF IInv, DirectPlaces, HooksThrow, Fail
  <2> QED
    BY <2>1, <2>2, <2>3, <2>4, <2>5, <2>6, <2>7 DEF IInv
<1>7. CASE SkipMiddleware
  <2>1. Shape'
    BY <1>7, <1>l, RequestsAssumption
    DEF IInv, Shape, Chain, Kinds, WaitPlaces, SkipMiddleware, Advance, InChain, Takes
  <2>2. Counts' /\ Kinds'
    BY <1>7 DEF IInv, Counts, Kinds, Stages, ErrorsAnswered, HooksPlaces, OneResponse,
       SkipMiddleware, Advance, InChain, Takes
  <2>3. OutHolds' /\ OneResponse'
    BY <1>7 DEF IInv, Counts, Kinds, OutHolds, OneResponse, RouterFresh, SkipMiddleware,
       Advance, InChain, Takes
  <2>4. RouterFresh' /\ ErrPlaces' /\ HandlerPlaces' /\ ErrorsAnswered'
    BY <1>7 DEF IInv, Counts, Kinds, Stages, OneResponse, RouterFresh, ErrPlaces,
       HandlerPlaces,
       ErrorsAnswered, SkipMiddleware, Advance, InChain, Takes
  <2>5. HooksPlaces'
    BY <1>7 DEF IInv, HooksPlaces, SkipMiddleware, Advance, InChain, Takes
  <2>6. WaitPlaces'
    BY <1>7, <1>l DEF IInv, Shape, Chain, Kinds, WaitPlaces, SkipMiddleware, Advance,
       InChain, Takes
  <2>7. DirectPlaces'
    BY <1>7 DEF IInv, DirectPlaces, SkipMiddleware, Advance, InChain, Takes
  <2> QED
    BY <2>1, <2>2, <2>3, <2>4, <2>5, <2>6, <2>7 DEF IInv
<1>8. CASE MiddlewareSettles
  <2>1. Shape'
    BY <1>8, <1>l, RequestsAssumption
    DEF IInv, Shape, Chain, Kinds, WaitPlaces, MiddlewareSettles, Advance, GoesOn,
       Answer, InChain, Takes
  <2>2. Counts' /\ Kinds'
    BY <1>8 DEF IInv, Counts, Kinds, Stages, ErrorsAnswered, HooksPlaces, OneResponse,
       MiddlewareSettles, Advance, GoesOn, Answer, InChain, Takes
  <2>3. OutHolds' /\ OneResponse'
    <3>1. \E how \in {"none", "now", "deferred"} : Answer(how)
      BY <1>8 DEF Answers, MiddlewareSettles, Advance, GoesOn, InChain, Takes
    <3> QED
      BY <3>1, AnswerKeeps DEF IInv
  <2>4. RouterFresh' /\ ErrPlaces' /\ HandlerPlaces' /\ ErrorsAnswered'
    BY <1>8 DEF IInv, Counts, Kinds, Stages, OneResponse, RouterFresh, ErrPlaces,
       HandlerPlaces,
       ErrorsAnswered, MiddlewareSettles, Advance, GoesOn, Answer, InChain, Takes
  <2>5. HooksPlaces'
    BY <1>8 DEF IInv, HooksPlaces, MiddlewareSettles, Advance, GoesOn, Answer, InChain,
       Takes
  <2>6. WaitPlaces'
    BY <1>8, <1>l DEF IInv, Shape, Chain, Kinds, WaitPlaces, MiddlewareSettles, Advance,
       GoesOn, Answer, InChain, Takes
  <2>7. DirectPlaces'
    BY <1>8 DEF IInv, DirectPlaces, MiddlewareSettles, Advance, GoesOn, Answer, InChain,
       Takes
  <2> QED
    BY <2>1, <2>2, <2>3, <2>4, <2>5, <2>6, <2>7 DEF IInv
<1>9. CASE MiddlewareWaits
  <2>1. Shape'
    BY <1>9, <1>l, RequestsAssumption
    DEF IInv, Shape, Chain, Kinds, WaitPlaces, MiddlewareWaits, Answer, InChain, Takes
  <2>2. Counts' /\ Kinds'
    BY <1>9 DEF IInv, Counts, Kinds, Stages, ErrorsAnswered, HooksPlaces, OneResponse,
       MiddlewareWaits, Answer, InChain, Takes
  <2>3. OutHolds' /\ OneResponse'
    <3>1. \E how \in {"none", "now", "deferred"} : Answer(how)
      BY <1>9 DEF Answers, MiddlewareWaits, InChain, Takes
    <3> QED
      BY <3>1, AnswerKeeps DEF IInv
  <2>4. RouterFresh' /\ ErrPlaces' /\ HandlerPlaces' /\ ErrorsAnswered'
    BY <1>9 DEF IInv, Counts, Kinds, Stages, OneResponse, RouterFresh, ErrPlaces,
       HandlerPlaces,
       ErrorsAnswered, MiddlewareWaits, Answer, InChain, Takes
  <2>5. HooksPlaces'
    BY <1>9 DEF IInv, HooksPlaces, MiddlewareWaits, Answer, InChain, Takes
  <2>6. WaitPlaces'
    BY <1>9, <1>l DEF IInv, Shape, Chain, Kinds, WaitPlaces, MiddlewareWaits, Answer,
       InChain, Takes
  <2>7. DirectPlaces'
    BY <1>9 DEF IInv, DirectPlaces, MiddlewareWaits, Answer, InChain, Takes
  <2> QED
    BY <2>1, <2>2, <2>3, <2>4, <2>5, <2>6, <2>7 DEF IInv
<1>10. CASE ChainStops
  <2>1. Shape'
    BY <1>10, <1>l, RequestsAssumption
    DEF IInv, Shape, Chain, Kinds, WaitPlaces, ChainStops, ChainReturns, InChain
  <2>2. Counts' /\ Kinds'
    BY <1>10 DEF IInv, Counts, Kinds, Stages, ErrorsAnswered, HooksPlaces, OneResponse,
       ChainStops, ChainReturns, InChain
  <2>3. OutHolds' /\ OneResponse'
    BY <1>10 DEF IInv, Counts, Kinds, OutHolds, OneResponse, RouterFresh, ChainStops,
       ChainReturns, InChain
  <2>4. RouterFresh' /\ ErrPlaces' /\ HandlerPlaces' /\ ErrorsAnswered'
    BY <1>10 DEF IInv, Counts, Kinds, Stages, OneResponse, RouterFresh, ErrPlaces,
       HandlerPlaces,
       ErrorsAnswered, ChainStops, ChainReturns, InChain
  <2>5. HooksPlaces'
    BY <1>10 DEF IInv, HooksPlaces, ChainStops, ChainReturns, InChain
  <2>6. WaitPlaces'
    BY <1>10, <1>l DEF IInv, Shape, Chain, Kinds, WaitPlaces, ChainStops, ChainReturns,
       InChain
  <2>7. DirectPlaces'
    BY <1>10 DEF IInv, DirectPlaces, ChainStops, ChainReturns, InChain
  <2> QED
    BY <2>1, <2>2, <2>3, <2>4, <2>5, <2>6, <2>7 DEF IInv
<1>11. CASE ChainEnds
  <2>1. Shape'
    BY <1>11, <1>l, RequestsAssumption
    DEF IInv, Shape, Chain, Kinds, WaitPlaces, ChainEnds, ChainReturns, InChain
  <2>2. Counts' /\ Kinds'
    BY <1>11 DEF IInv, Counts, Kinds, Stages, ErrorsAnswered, HooksPlaces, OneResponse,
       ChainEnds, ChainReturns, InChain
  <2>3. OutHolds' /\ OneResponse'
    BY <1>11 DEF IInv, Counts, Kinds, OutHolds, OneResponse, RouterFresh, ChainEnds,
       ChainReturns, InChain
  <2>4. RouterFresh' /\ ErrPlaces' /\ HandlerPlaces' /\ ErrorsAnswered'
    BY <1>11 DEF IInv, Counts, Kinds, Stages, OneResponse, RouterFresh, ErrPlaces,
       HandlerPlaces,
       ErrorsAnswered, ChainEnds, ChainReturns, InChain
  <2>5. HooksPlaces'
    BY <1>11 DEF IInv, HooksPlaces, ChainEnds, ChainReturns, InChain
  <2>6. WaitPlaces'
    BY <1>11, <1>l DEF IInv, Shape, Chain, Kinds, WaitPlaces, ChainEnds, ChainReturns,
       InChain
  <2>7. DirectPlaces'
    BY <1>11 DEF IInv, DirectPlaces, ChainEnds, ChainReturns, InChain
  <2> QED
    BY <2>1, <2>2, <2>3, <2>4, <2>5, <2>6, <2>7 DEF IInv
<1>12. CASE ChainThrows
  <2>1. Shape'
    BY <1>12, <1>l, RequestsAssumption
    DEF IInv, Shape, Chain, Kinds, WaitPlaces, ChainThrows, Fail, InChain
  <2>2. Counts' /\ Kinds'
    BY <1>12 DEF IInv, Counts, Kinds, Stages, ErrorsAnswered, HooksPlaces, OneResponse,
       ChainThrows, Fail, InChain
  <2>3. OutHolds' /\ OneResponse'
    BY <1>12 DEF IInv, Counts, Kinds, OutHolds, OneResponse, RouterFresh, ChainThrows,
       Fail, InChain
  <2>4. RouterFresh' /\ ErrPlaces' /\ HandlerPlaces' /\ ErrorsAnswered'
    BY <1>12 DEF IInv, Counts, Kinds, Stages, OneResponse, RouterFresh, ErrPlaces,
       HandlerPlaces,
       ErrorsAnswered, ChainThrows, Fail, InChain
  <2>5. HooksPlaces'
    BY <1>12 DEF IInv, HooksPlaces, ChainThrows, Fail, InChain
  <2>6. WaitPlaces'
    BY <1>12, <1>l DEF IInv, Shape, Chain, Kinds, WaitPlaces, ChainThrows, Fail, InChain
  <2>7. DirectPlaces'
    BY <1>12 DEF IInv, DirectPlaces, ChainThrows, Fail, InChain
  <2> QED
    BY <2>1, <2>2, <2>3, <2>4, <2>5, <2>6, <2>7 DEF IInv
<1>13. CASE Unrouted
  <2>1. Shape'
    BY <1>13, <1>l, RequestsAssumption
    DEF IInv, Shape, Chain, Kinds, WaitPlaces, Unrouted, GoTo
  <2>2. Counts' /\ Kinds'
    BY <1>13 DEF IInv, Counts, Kinds, Stages, ErrorsAnswered, HooksPlaces, OneResponse,
       Unrouted, GoTo
  <2>3. OutHolds' /\ OneResponse'
    BY <1>13 DEF IInv, Counts, Kinds, OutHolds, OneResponse, RouterFresh, Unrouted, GoTo
  <2>4. RouterFresh' /\ ErrPlaces' /\ HandlerPlaces' /\ ErrorsAnswered'
    BY <1>13 DEF IInv, Counts, Kinds, Stages, OneResponse, RouterFresh, ErrPlaces,
       HandlerPlaces,
       ErrorsAnswered, Unrouted, GoTo
  <2>5. HooksPlaces'
    BY <1>13 DEF IInv, HooksPlaces, Unrouted, GoTo
  <2>6. WaitPlaces'
    BY <1>13, <1>l DEF IInv, Shape, Chain, Kinds, WaitPlaces, Unrouted, GoTo
  <2>7. DirectPlaces'
    BY <1>13 DEF IInv, DirectPlaces, Unrouted, GoTo
  <2> QED
    BY <2>1, <2>2, <2>3, <2>4, <2>5, <2>6, <2>7 DEF IInv
<1>14. CASE FastRoute
  <2>1. Shape'
    BY <1>14, <1>l, RequestsAssumption
    DEF IInv, Shape, Chain, Kinds, WaitPlaces, FastRoute, Fail, CallHandler, GoTo, Answer
  <2>2. Counts' /\ Kinds'
    BY <1>14 DEF IInv, Counts, Kinds, Stages, ErrorsAnswered, HooksPlaces, OneResponse,
       FastRoute, Fail, CallHandler, GoTo, Answer
  <2>3. OutHolds' /\ OneResponse'
    <3>1. \E how \in {"none", "now", "deferred"} : Answer(how)
      BY <1>14 DEF Answers, FastRoute, Fail, CallHandler, GoTo
    <3> QED
      BY <3>1, AnswerKeeps DEF IInv
  <2>4. RouterFresh' /\ ErrPlaces' /\ HandlerPlaces' /\ ErrorsAnswered'
    BY <1>14 DEF IInv, Counts, Kinds, Stages, OneResponse, RouterFresh, ErrPlaces,
       HandlerPlaces,
       ErrorsAnswered, FastRoute, Fail, CallHandler, GoTo, Answer
  <2>5. HooksPlaces'
    BY <1>14 DEF IInv, HooksPlaces, FastRoute, Fail, CallHandler, GoTo, Answer
  <2>6. WaitPlaces'
    BY <1>14, <1>l DEF IInv, Shape, Chain, Kinds, WaitPlaces, FastRoute, Fail,
       CallHandler, GoTo, Answer
  <2>7. DirectPlaces'
    BY <1>14 DEF IInv, DirectPlaces, FastRoute, Fail, CallHandler, GoTo, Answer
  <2> QED
    BY <2>1, <2>2, <2>3, <2>4, <2>5, <2>6, <2>7 DEF IInv
<1>15. CASE PhasedRoute
  <2>1. Shape'
    BY <1>15, <1>l, RequestsAssumption
    DEF IInv, Shape, Chain, Kinds, WaitPlaces, PhasedRoute, GoTo
  <2>2. Counts' /\ Kinds'
    BY <1>15 DEF IInv, Counts, Kinds, Stages, ErrorsAnswered, HooksPlaces, OneResponse,
       PhasedRoute, GoTo
  <2>3. OutHolds' /\ OneResponse'
    BY <1>15 DEF IInv, Counts, Kinds, OutHolds, OneResponse, RouterFresh, PhasedRoute, GoTo
  <2>4. RouterFresh' /\ ErrPlaces' /\ HandlerPlaces' /\ ErrorsAnswered'
    BY <1>15 DEF IInv, Counts, Kinds, Stages, OneResponse, RouterFresh, ErrPlaces,
       HandlerPlaces,
       ErrorsAnswered, PhasedRoute, GoTo
  <2>5. HooksPlaces'
    BY <1>15 DEF IInv, HooksPlaces, PhasedRoute, GoTo
  <2>6. WaitPlaces'
    BY <1>15, <1>l DEF IInv, Shape, Chain, Kinds, WaitPlaces, PhasedRoute, GoTo
  <2>7. DirectPlaces'
    BY <1>15 DEF IInv, DirectPlaces, PhasedRoute, GoTo
  <2> QED
    BY <2>1, <2>2, <2>3, <2>4, <2>5, <2>6, <2>7 DEF IInv
<1>16. CASE CorePhase
  <2>1. Shape'
    BY <1>16, <1>l, RequestsAssumption
    DEF IInv, Shape, Chain, Kinds, WaitPlaces, CorePhase, Advance, Answer, InPhase
  <2>2. Counts' /\ Kinds'
    BY <1>16 DEF IInv, Counts, Kinds, Stages, ErrorsAnswered, HooksPlaces, OneResponse,
       CorePhase, Advance, Answer, InPhase
  <2>3. OutHolds' /\ OneResponse'
    <3>1. \E how \in {"none", "now", "deferred"} : Answer(how)
      BY <1>16 DEF Answers, CorePhase, Advance, InPhase
    <3> QED
      BY <3>1, AnswerKeeps DEF IInv
  <2>4. RouterFresh' /\ ErrPlaces' /\ HandlerPlaces' /\ ErrorsAnswered'
    BY <1>16 DEF IInv, Counts, Kinds, Stages, OneResponse, RouterFresh, ErrPlaces,
       HandlerPlaces,
       ErrorsAnswered, CorePhase, Advance, Answer, InPhase
  <2>5. HooksPlaces'
    BY <1>16 DEF IInv, HooksPlaces, CorePhase, Advance, Answer, InPhase
  <2>6. WaitPlaces'
    BY <1>16, <1>l DEF IInv, Shape, Chain, Kinds, WaitPlaces, CorePhase, Advance,
       Answer, InPhase
  <2>7. DirectPlaces'
    BY <1>16 DEF IInv, DirectPlaces, CorePhase, Advance, Answer, InPhase
  <2> QED
    BY <2>1, <2>2, <2>3, <2>4, <2>5, <2>6, <2>7 DEF IInv
<1>17. CASE PhaseMiddleware
  <2>1. Shape'
    BY <1>17, <1>l, RequestsAssumption
    DEF IInv, Shape, Chain, Kinds, WaitPlaces, PhaseMiddleware, Advance, GoesOn, Answer,
       InPhase
  <2>2. Counts' /\ Kinds'
    BY <1>17 DEF IInv, Counts, Kinds, Stages, ErrorsAnswered, HooksPlaces, OneResponse,
       PhaseMiddleware, Advance, GoesOn, Answer, InPhase
  <2>3. OutHolds' /\ OneResponse'
    <3>1. \E how \in {"none", "now", "deferred"} : Answer(how)
      BY <1>17 DEF Answers, PhaseMiddleware, Advance, GoesOn, InPhase
    <3> QED
      BY <3>1, AnswerKeeps DEF IInv
  <2>4. RouterFresh' /\ ErrPlaces' /\ HandlerPlaces' /\ ErrorsAnswered'
    BY <1>17 DEF IInv, Counts, Kinds, Stages, OneResponse, RouterFresh, ErrPlaces,
       HandlerPlaces,
       ErrorsAnswered, PhaseMiddleware, Advance, GoesOn, Answer, InPhase
  <2>5. HooksPlaces'
    BY <1>17 DEF IInv, HooksPlaces, PhaseMiddleware, Advance, GoesOn, Answer, InPhase
  <2>6. WaitPlaces'
    BY <1>17, <1>l DEF IInv, Shape, Chain, Kinds, WaitPlaces, PhaseMiddleware, Advance,
       GoesOn, Answer, InPhase
  <2>7. DirectPlaces'
    BY <1>17 DEF IInv, DirectPlaces, PhaseMiddleware, Advance, GoesOn, Answer, InPhase
  <2> QED
    BY <2>1, <2>2, <2>3, <2>4, <2>5, <2>6, <2>7 DEF IInv
<1>18. CASE PhaseThrows
  <2>1. Shape'
    BY <1>18, <1>l, RequestsAssumption
    DEF IInv, Shape, Chain, Kinds, WaitPlaces, PhaseThrows, Fail, Answer, InPhase
  <2>2. Counts' /\ Kinds'
    BY <1>18 DEF IInv, Counts, Kinds, Stages, ErrorsAnswered, HooksPlaces, OneResponse,
       PhaseThrows, Fail, Answer, InPhase
  <2>3. OutHolds' /\ OneResponse'
    <3>1. \E how \in {"none", "now", "deferred"} : Answer(how)
      BY <1>18 DEF Answers, PhaseThrows, Fail, InPhase
    <3> QED
      BY <3>1, AnswerKeeps DEF IInv
  <2>4. RouterFresh' /\ ErrPlaces' /\ HandlerPlaces' /\ ErrorsAnswered'
    BY <1>18 DEF IInv, Counts, Kinds, Stages, OneResponse, RouterFresh, ErrPlaces,
       HandlerPlaces,
       ErrorsAnswered, PhaseThrows, Fail, Answer, InPhase
  <2>5. HooksPlaces'
    BY <1>18 DEF IInv, HooksPlaces, PhaseThrows, Fail, Answer, InPhase
  <2>6. WaitPlaces'
    BY <1>18, <1>l DEF IInv, Shape, Chain, Kinds, WaitPlaces, PhaseThrows, Fail, Answer,
       InPhase
  <2>7. DirectPlaces'
    BY <1>18 DEF IInv, DirectPlaces, PhaseThrows, Fail, Answer, InPhase
  <2> QED
    BY <2>1, <2>2, <2>3, <2>4, <2>5, <2>6, <2>7 DEF IInv
<1>19. CASE PhasesEnd
  <2>1. Shape'
    BY <1>19, <1>l, RequestsAssumption
    DEF IInv, Shape, Chain, Kinds, WaitPlaces, PhasesEnd, Fail, CallHandler, GoTo, Answer
  <2>2. Counts' /\ Kinds'
    BY <1>19 DEF IInv, Counts, Kinds, Stages, ErrorsAnswered, HooksPlaces, OneResponse,
       PhasesEnd, Fail, CallHandler, GoTo, Answer
  <2>3. OutHolds' /\ OneResponse'
    <3>1. \E how \in {"none", "now", "deferred"} : Answer(how)
      BY <1>19 DEF Answers, PhasesEnd, Fail, CallHandler, GoTo
    <3> QED
      BY <3>1, AnswerKeeps DEF IInv
  <2>4. RouterFresh' /\ ErrPlaces' /\ HandlerPlaces' /\ ErrorsAnswered'
    BY <1>19 DEF IInv, Counts, Kinds, Stages, OneResponse, RouterFresh, ErrPlaces,
       HandlerPlaces,
       ErrorsAnswered, PhasesEnd, Fail, CallHandler, GoTo, Answer
  <2>5. HooksPlaces'
    BY <1>19 DEF IInv, HooksPlaces, PhasesEnd, Fail, CallHandler, GoTo, Answer
  <2>6. WaitPlaces'
    BY <1>19, <1>l DEF IInv, Shape, Chain, Kinds, WaitPlaces, PhasesEnd, Fail,
       CallHandler, GoTo, Answer
  <2>7. DirectPlaces'
    BY <1>19 DEF IInv, DirectPlaces, PhasesEnd, Fail, CallHandler, GoTo, Answer
  <2> QED
    BY <2>1, <2>2, <2>3, <2>4, <2>5, <2>6, <2>7 DEF IInv
<1>20. CASE PhasesStop
  <2>1. Shape'
    BY <1>20, <1>l, RequestsAssumption
    DEF IInv, Shape, Chain, Kinds, WaitPlaces, PhasesStop, GoTo
  <2>2. Counts' /\ Kinds'
    BY <1>20 DEF IInv, Counts, Kinds, Stages, ErrorsAnswered, HooksPlaces, OneResponse,
       PhasesStop, GoTo
  <2>3. OutHolds' /\ OneResponse'
    BY <1>20 DEF IInv, Counts, Kinds, OutHolds, OneResponse, RouterFresh, PhasesStop, GoTo
  <2>4. RouterFresh' /\ ErrPlaces' /\ HandlerPlaces' /\ ErrorsAnswered'
    BY <1>20 DEF IInv, Counts, Kinds, Stages, OneResponse, RouterFresh, ErrPlaces,
       HandlerPlaces,
       ErrorsAnswered, PhasesStop, GoTo
  <2>5. HooksPlaces'
    BY <1>20 DEF IInv, HooksPlaces, PhasesStop, GoTo
  <2>6. WaitPlaces'
    BY <1>20, <1>l DEF IInv, Shape, Chain, Kinds, WaitPlaces, PhasesStop, GoTo
  <2>7. DirectPlaces'
    BY <1>20 DEF IInv, DirectPlaces, PhasesStop, GoTo
  <2> QED
    BY <2>1, <2>2, <2>3, <2>4, <2>5, <2>6, <2>7 DEF IInv
<1>21. CASE NoDirectRoute
  <2>1. Shape'
    BY <1>21, <1>l, RequestsAssumption
    DEF IInv, Shape, Chain, Kinds, WaitPlaces, NoDirectRoute, GoTo, NotFound
  <2>2. Counts' /\ Kinds'
    BY <1>21 DEF IInv, Counts, Kinds, Stages, ErrorsAnswered, HooksPlaces, OneResponse,
       NoDirectRoute, GoTo, NotFound
  <2>3. OutHolds' /\ OneResponse'
    BY <1>21 DEF IInv, Counts, Kinds, OutHolds, OneResponse, RouterFresh, NoDirectRoute,
       GoTo, NotFound
  <2>4. RouterFresh' /\ ErrPlaces' /\ HandlerPlaces' /\ ErrorsAnswered'
    BY <1>21 DEF IInv, Counts, Kinds, Stages, OneResponse, RouterFresh, ErrPlaces,
       HandlerPlaces,
       ErrorsAnswered, NoDirectRoute, GoTo, NotFound
  <2>5. HooksPlaces'
    BY <1>21 DEF IInv, HooksPlaces, NoDirectRoute, GoTo, NotFound
  <2>6. WaitPlaces'
    BY <1>21, <1>l DEF IInv, Shape, Chain, Kinds, WaitPlaces, NoDirectRoute, GoTo, NotFound
  <2>7. DirectPlaces'
    BY <1>21 DEF IInv, DirectPlaces, NoDirectRoute, GoTo, NotFound
  <2> QED
    BY <2>1, <2>2, <2>3, <2>4, <2>5, <2>6, <2>7 DEF IInv
<1>22. CASE DirectRoute
  <2>1. Shape'
    BY <1>22, <1>l, RequestsAssumption
    DEF IInv, Shape, Chain, Kinds, WaitPlaces, DirectRoute, GoTo
  <2>2. Counts' /\ Kinds'
    BY <1>22 DEF IInv, Counts, Kinds, Stages, ErrorsAnswered, HooksPlaces, OneResponse,
       DirectRoute, GoTo
  <2>3. OutHolds' /\ OneResponse'
    BY <1>22 DEF IInv, Counts, Kinds, OutHolds, OneResponse, RouterFresh, DirectRoute, GoTo
  <2>4. RouterFresh' /\ ErrPlaces' /\ HandlerPlaces' /\ ErrorsAnswered'
    BY <1>22 DEF IInv, Counts, Kinds, Stages, OneResponse, RouterFresh, ErrPlaces,
       HandlerPlaces,
       ErrorsAnswered, DirectRoute, GoTo
  <2>5. HooksPlaces'
    BY <1>22 DEF IInv, HooksPlaces, DirectRoute, GoTo
  <2>6. WaitPlaces'
    BY <1>22, <1>l DEF IInv, Shape, Chain, Kinds, WaitPlaces, DirectRoute, GoTo
  <2>7. DirectPlaces'
    BY <1>22 DEF IInv, DirectPlaces, DirectRoute, GoTo
  <2> QED
    BY <2>1, <2>2, <2>3, <2>4, <2>5, <2>6, <2>7 DEF IInv
<1>23. CASE DirectHandler
  <2>1. Shape'
    BY <1>23, <1>l, RequestsAssumption
    DEF IInv, Shape, Chain, Kinds, WaitPlaces, DirectHandler, GoTo, Fail, CallHandler,
       Answer
  <2>2. Counts' /\ Kinds'
    <3>1. PICK how \in Answers : Answer(how)
      BY <1>23 DEF CallHandler, DirectHandler
    <3>2. /\ stage' \in {"done", "handler", "error"} /\ waiting' \in {"no", "promise"}
          /\ err' \in {err, "error"} /\ late' = late /\ lost' \in {lost, TRUE}
          /\ errRuns' \in {errRuns, errRuns + 1} /\ handlerRuns' = handlerRuns + 1
          /\ UNCHANGED <<finished, hooksOn, hookRuns>>
      BY <1>23 DEF DirectHandler, GoTo, Fail, CallHandler, IInv, Kinds
    <3>3. errRuns = 0
      BY <1>23 DEF IInv, ErrorsAnswered, DirectHandler
    <3>4. deferred' \in Nat /\ written' \in Nat
      BY <3>1 DEF IInv, Counts, Answer
    <3>5. sent' \in BOOLEAN /\ answered' \in BOOLEAN
      BY <3>1 DEF IInv, Kinds, Answer
    <3>6. Counts'
      BY <3>2, <3>3, <3>4 DEF IInv, Counts
    <3>7. Kinds'
      BY <3>2, <3>5 DEF IInv, Kinds, Stages
    <3> QED
      BY <3>6, <3>7
  <2>3. OutHolds' /\ OneResponse'
    <3>1. \E how \in {"none", "now", "deferred"} : Answer(how)
      BY <1>23 DEF Answers, DirectHandler, GoTo, Fail, CallHandler
    <3> QED
      BY <3>1, AnswerKeeps DEF IInv
  <2>4. RouterFresh' /\ ErrPlaces' /\ HandlerPlaces' /\ ErrorsAnswered'
    BY <1>23 DEF IInv, Counts, Kinds, Stages, OneResponse, RouterFresh, ErrPlaces,
       HandlerPlaces,
       ErrorsAnswered, DirectHandler, GoTo, Fail, CallHandler, Answer
  <2>5. HooksPlaces'
    BY <1>23 DEF IInv, HooksPlaces, DirectHandler, GoTo, Fail, CallHandler, Answer
  <2>6. WaitPlaces'
    BY <1>23, <1>l DEF IInv, Shape, Chain, Kinds, WaitPlaces, DirectHandler, GoTo, Fail,
       CallHandler, Answer
  <2>7. DirectPlaces'
    BY <1>23 DEF IInv, DirectPlaces, DirectHandler, GoTo, Fail, CallHandler, Answer
  <2> QED
    BY <2>1, <2>2, <2>3, <2>4, <2>5, <2>6, <2>7 DEF IInv
<1>24. CASE HandlerReturns
  <2>1. Shape'
    BY <1>24, <1>l, RequestsAssumption
    DEF IInv, Shape, Chain, Kinds, WaitPlaces, HandlerReturns, GoTo, Answer
  <2>2. Counts' /\ Kinds'
    BY <1>24 DEF IInv, Counts, Kinds, Stages, ErrorsAnswered, HooksPlaces, OneResponse,
       HandlerReturns, GoTo, Answer
  <2>3. OutHolds' /\ OneResponse'
    <3>1. \E how \in {"none", "now", "deferred"} : Answer(how)
      BY <1>24 DEF Answers, HandlerReturns, GoTo
    <3> QED
      BY <3>1, AnswerKeeps DEF IInv
  <2>4. RouterFresh' /\ ErrPlaces' /\ HandlerPlaces' /\ ErrorsAnswered'
    BY <1>24 DEF IInv, Counts, Kinds, Stages, OneResponse, RouterFresh, ErrPlaces,
       HandlerPlaces,
       ErrorsAnswered, HandlerReturns, GoTo, Answer
  <2>5. HooksPlaces'
    BY <1>24 DEF IInv, HooksPlaces, HandlerReturns, GoTo, Answer
  <2>6. WaitPlaces'
    BY <1>24, <1>l DEF IInv, Shape, Chain, Kinds, WaitPlaces, HandlerReturns, GoTo, Answer
  <2>7. DirectPlaces'
    BY <1>24 DEF IInv, DirectPlaces, HandlerReturns, GoTo, Answer
  <2> QED
    BY <2>1, <2>2, <2>3, <2>4, <2>5, <2>6, <2>7 DEF IInv
<1>25. CASE HandlerRejects
  <2>1. Shape'
    BY <1>25, <1>l, RequestsAssumption
    DEF IInv, Shape, Chain, Kinds, WaitPlaces, HandlerRejects, Fail
  <2>2. Counts' /\ Kinds'
    BY <1>25 DEF IInv, Counts, Kinds, Stages, ErrorsAnswered, HooksPlaces, OneResponse,
       HandlerRejects, Fail
  <2>3. OutHolds' /\ OneResponse'
    BY <1>25 DEF IInv, Counts, Kinds, OutHolds, OneResponse, RouterFresh,
       HandlerRejects, Fail
  <2>4. RouterFresh' /\ ErrPlaces' /\ HandlerPlaces' /\ ErrorsAnswered'
    BY <1>25 DEF IInv, Counts, Kinds, Stages, OneResponse, RouterFresh, ErrPlaces,
       HandlerPlaces,
       ErrorsAnswered, HandlerRejects, Fail
  <2>5. HooksPlaces'
    BY <1>25 DEF IInv, HooksPlaces, HandlerRejects, Fail
  <2>6. WaitPlaces'
    BY <1>25, <1>l DEF IInv, Shape, Chain, Kinds, WaitPlaces, HandlerRejects, Fail
  <2>7. DirectPlaces'
    BY <1>25 DEF IInv, DirectPlaces, HandlerRejects, Fail
  <2> QED
    BY <2>1, <2>2, <2>3, <2>4, <2>5, <2>6, <2>7 DEF IInv
<1>26. CASE AnswerError
  <2>1. Shape'
    BY <1>26, <1>l, RequestsAssumption
    DEF IInv, Shape, Chain, Kinds, WaitPlaces, AnswerError, GoTo, Answer, ErrorHandlerRuns
  <2>2. Counts' /\ Kinds'
    BY <1>26 DEF IInv, Counts, Kinds, Stages, ErrorsAnswered, HooksPlaces, OneResponse,
       AnswerError, GoTo, Answer, ErrorHandlerRuns
  <2>3. OutHolds' /\ OneResponse'
    <3>1. \E how \in {"none", "now", "deferred"} : Answer(how)
      BY <1>26 DEF Answers, AnswerError, GoTo, ErrorHandlerRuns
    <3> QED
      BY <3>1, AnswerKeeps DEF IInv
  <2>4. RouterFresh' /\ ErrPlaces' /\ HandlerPlaces' /\ ErrorsAnswered'
    <3>1. sent' = TRUE
      BY <1>26 DEF AnswerError, GoTo, Answer, ErrorHandlerRuns
    <3>2. stage' = "done" /\ stage = "error" /\ err' = err /\ errRuns' = errRuns
      BY <1>26 DEF AnswerError, GoTo, Answer, ErrorHandlerRuns
    <3>3. err # "none" => ErrorsAnswered'
      BY <3>1, <3>2 DEF IInv, ErrorsAnswered
    <3>4. err # "none"
      BY <3>2 DEF IInv, ErrPlaces
    <3> QED
      BY <3>2, <3>3, <3>4 DEF RouterFresh, ErrPlaces, HandlerPlaces
  <2>5. HooksPlaces'
    BY <1>26 DEF IInv, HooksPlaces, AnswerError, GoTo, Answer, ErrorHandlerRuns
  <2>6. WaitPlaces'
    BY <1>26, <1>l DEF IInv, Shape, Chain, Kinds, WaitPlaces, AnswerError, GoTo, Answer,
       ErrorHandlerRuns
  <2>7. DirectPlaces'
    BY <1>26 DEF IInv, DirectPlaces, AnswerError, GoTo, Answer, ErrorHandlerRuns
  <2> QED
    BY <2>1, <2>2, <2>3, <2>4, <2>5, <2>6, <2>7 DEF IInv
<1>27. CASE RunErrorHandler
  <2>1. Shape'
    BY <1>27, <1>l, RequestsAssumption
    DEF IInv, Shape, Chain, Kinds, WaitPlaces, RunErrorHandler, GoTo, ErrorHandlerRuns
  <2>2. Counts' /\ Kinds'
    BY <1>27 DEF IInv, Counts, Kinds, Stages, ErrorsAnswered, HooksPlaces, OneResponse,
       RunErrorHandler, GoTo, ErrorHandlerRuns
  <2>3. OutHolds' /\ OneResponse'
    BY <1>27 DEF IInv, Counts, Kinds, OutHolds, OneResponse, RouterFresh,
       RunErrorHandler, GoTo, ErrorHandlerRuns
  <2>4. RouterFresh' /\ ErrPlaces' /\ HandlerPlaces' /\ ErrorsAnswered'
    <3>1. sent' = TRUE
      BY <1>27 DEF RunErrorHandler, GoTo, ErrorHandlerRuns
    <3>2. stage' = "done" /\ stage = "error" /\ err' = err /\ errRuns' = errRuns
      BY <1>27 DEF RunErrorHandler, GoTo, ErrorHandlerRuns
    <3>3. err # "none" => ErrorsAnswered'
      BY <3>1, <3>2 DEF IInv, ErrorsAnswered
    <3>4. err # "none"
      BY <3>2 DEF IInv, ErrPlaces
    <3> QED
      BY <3>2, <3>3, <3>4 DEF RouterFresh, ErrPlaces, HandlerPlaces
  <2>5. HooksPlaces'
    BY <1>27 DEF IInv, HooksPlaces, RunErrorHandler, GoTo, ErrorHandlerRuns
  <2>6. WaitPlaces'
    BY <1>27, <1>l DEF IInv, Shape, Chain, Kinds, WaitPlaces, RunErrorHandler, GoTo,
       ErrorHandlerRuns
  <2>7. DirectPlaces'
    BY <1>27 DEF IInv, DirectPlaces, RunErrorHandler, GoTo, ErrorHandlerRuns
  <2> QED
    BY <2>1, <2>2, <2>3, <2>4, <2>5, <2>6, <2>7 DEF IInv
<1>28. CASE ErrorHandlerWaits
  <2>1. Shape'
    BY <1>28, <1>l, RequestsAssumption
    DEF IInv, Shape, Chain, Kinds, WaitPlaces, ErrorHandlerWaits, Answer, ErrorHandlerRuns
  <2>2. Counts' /\ Kinds'
    BY <1>28 DEF IInv, Counts, Kinds, Stages, ErrorsAnswered, HooksPlaces, OneResponse,
       ErrorHandlerWaits, Answer, ErrorHandlerRuns
  <2>3. OutHolds' /\ OneResponse'
    <3>1. \E how \in {"none", "now", "deferred"} : Answer(how)
      BY <1>28 DEF Answers, ErrorHandlerWaits, ErrorHandlerRuns
    <3> QED
      BY <3>1, AnswerKeeps DEF IInv
  <2>4. RouterFresh' /\ ErrPlaces' /\ HandlerPlaces' /\ ErrorsAnswered'
    BY <1>28 DEF IInv, Counts, Kinds, Stages, OneResponse, RouterFresh, ErrPlaces,
       HandlerPlaces,
       ErrorsAnswered, ErrorHandlerWaits, Answer, ErrorHandlerRuns
  <2>5. HooksPlaces'
    BY <1>28 DEF IInv, HooksPlaces, ErrorHandlerWaits, Answer, ErrorHandlerRuns
  <2>6. WaitPlaces'
    BY <1>28, <1>l DEF IInv, Shape, Chain, Kinds, WaitPlaces, ErrorHandlerWaits, Answer,
       ErrorHandlerRuns
  <2>7. DirectPlaces'
    BY <1>28 DEF IInv, DirectPlaces, ErrorHandlerWaits, Answer, ErrorHandlerRuns
  <2> QED
    BY <2>1, <2>2, <2>3, <2>4, <2>5, <2>6, <2>7 DEF IInv
<1>29. CASE ErrorHandlerSettles
  <2>1. Shape'
    BY <1>29, <1>l, RequestsAssumption
    DEF IInv, Shape, Chain, Kinds, WaitPlaces, ErrorHandlerSettles, GoTo, Answer
  <2>2. Counts' /\ Kinds'
    BY <1>29 DEF IInv, Counts, Kinds, Stages, ErrorsAnswered, HooksPlaces, OneResponse,
       ErrorHandlerSettles, GoTo, Answer
  <2>3. OutHolds' /\ OneResponse'
    <3>1. \E how \in {"none", "now", "deferred"} : Answer(how)
      BY <1>29 DEF Answers, ErrorHandlerSettles, GoTo
    <3> QED
      BY <3>1, AnswerKeeps DEF IInv
  <2>4. RouterFresh' /\ ErrPlaces' /\ HandlerPlaces' /\ ErrorsAnswered'
    <3>1. sent' = TRUE
      BY <1>29 DEF ErrorHandlerSettles, GoTo, Answer
    <3>2. stage' = "done" /\ stage = "error" /\ err' = err /\ errRuns' = errRuns
      BY <1>29 DEF ErrorHandlerSettles, GoTo, Answer
    <3>3. err # "none" => ErrorsAnswered'
      BY <3>1, <3>2 DEF IInv, ErrorsAnswered
    <3>4. err # "none"
      BY <3>2 DEF IInv, ErrPlaces
    <3> QED
      BY <3>2, <3>3, <3>4 DEF RouterFresh, ErrPlaces, HandlerPlaces
  <2>5. HooksPlaces'
    BY <1>29 DEF IInv, HooksPlaces, ErrorHandlerSettles, GoTo, Answer
  <2>6. WaitPlaces'
    BY <1>29, <1>l DEF IInv, Shape, Chain, Kinds, WaitPlaces, ErrorHandlerSettles, GoTo,
       Answer
  <2>7. DirectPlaces'
    BY <1>29 DEF IInv, DirectPlaces, ErrorHandlerSettles, GoTo, Answer
  <2> QED
    BY <2>1, <2>2, <2>3, <2>4, <2>5, <2>6, <2>7 DEF IInv
<1>30. CASE MiddlewareResumes
  <2>1. Shape'
    BY <1>30, <1>l, RequestsAssumption
    DEF IInv, Shape, Chain, Kinds, WaitPlaces, MiddlewareResumes, Advance, GoesOn
  <2>2. Counts' /\ Kinds'
    BY <1>30 DEF IInv, Counts, Kinds, Stages, ErrorsAnswered, HooksPlaces, OneResponse,
       MiddlewareResumes, Advance, GoesOn
  <2>3. OutHolds' /\ OneResponse'
    BY <1>30 DEF IInv, Counts, Kinds, OutHolds, OneResponse, RouterFresh,
       MiddlewareResumes, Advance, GoesOn
  <2>4. RouterFresh' /\ ErrPlaces' /\ HandlerPlaces' /\ ErrorsAnswered'
    BY <1>30 DEF IInv, Counts, Kinds, Stages, OneResponse, RouterFresh, ErrPlaces,
       HandlerPlaces,
       ErrorsAnswered, MiddlewareResumes, Advance, GoesOn
  <2>5. HooksPlaces'
    BY <1>30 DEF IInv, HooksPlaces, MiddlewareResumes, Advance, GoesOn
  <2>6. WaitPlaces'
    BY <1>30, <1>l DEF IInv, Shape, Chain, Kinds, WaitPlaces, MiddlewareResumes,
       Advance, GoesOn
  <2>7. DirectPlaces'
    BY <1>30 DEF IInv, DirectPlaces, MiddlewareResumes, Advance, GoesOn
  <2> QED
    BY <2>1, <2>2, <2>3, <2>4, <2>5, <2>6, <2>7 DEF IInv
<1>31. CASE PhaseResumes
  <2>1. Shape'
    BY <1>31, <1>l, RequestsAssumption
    DEF IInv, Shape, Chain, Kinds, WaitPlaces, PhaseResumes, Advance, GoesOn
  <2>2. Counts' /\ Kinds'
    BY <1>31 DEF IInv, Counts, Kinds, Stages, ErrorsAnswered, HooksPlaces, OneResponse,
       PhaseResumes, Advance, GoesOn
  <2>3. OutHolds' /\ OneResponse'
    BY <1>31 DEF IInv, Counts, Kinds, OutHolds, OneResponse, RouterFresh, PhaseResumes,
       Advance, GoesOn
  <2>4. RouterFresh' /\ ErrPlaces' /\ HandlerPlaces' /\ ErrorsAnswered'
    BY <1>31 DEF IInv, Counts, Kinds, Stages, OneResponse, RouterFresh, ErrPlaces,
       HandlerPlaces,
       ErrorsAnswered, PhaseResumes, Advance, GoesOn
  <2>5. HooksPlaces'
    BY <1>31 DEF IInv, HooksPlaces, PhaseResumes, Advance, GoesOn
  <2>6. WaitPlaces'
    BY <1>31, <1>l DEF IInv, Shape, Chain, Kinds, WaitPlaces, PhaseResumes, Advance, GoesOn
  <2>7. DirectPlaces'
    BY <1>31 DEF IInv, DirectPlaces, PhaseResumes, Advance, GoesOn
  <2> QED
    BY <2>1, <2>2, <2>3, <2>4, <2>5, <2>6, <2>7 DEF IInv
<1>32. CASE AwaitedAnswers
  <2>1. Shape'
    BY <1>32, <1>l, RequestsAssumption
    DEF IInv, Shape, Chain, Kinds, WaitPlaces, AwaitedAnswers, Answer
  <2>2. Counts' /\ Kinds'
    BY <1>32 DEF IInv, Counts, Kinds, Stages, ErrorsAnswered, HooksPlaces, OneResponse,
       AwaitedAnswers, Answer
  <2>3. OutHolds' /\ OneResponse'
    <3>1. \E how \in {"none", "now", "deferred"} : Answer(how)
      BY <1>32 DEF Answers, AwaitedAnswers
    <3> QED
      BY <3>1, AnswerKeeps DEF IInv
  <2>4. RouterFresh' /\ ErrPlaces' /\ HandlerPlaces' /\ ErrorsAnswered'
    BY <1>32 DEF IInv, Counts, Kinds, Stages, OneResponse, RouterFresh, ErrPlaces,
       HandlerPlaces,
       ErrorsAnswered, AwaitedAnswers, Answer
  <2>5. HooksPlaces'
    BY <1>32 DEF IInv, HooksPlaces, AwaitedAnswers, Answer
  <2>6. WaitPlaces'
    BY <1>32, <1>l DEF IInv, Shape, Chain, Kinds, WaitPlaces, AwaitedAnswers, Answer
  <2>7. DirectPlaces'
    BY <1>32 DEF IInv, DirectPlaces, AwaitedAnswers, Answer
  <2> QED
    BY <2>1, <2>2, <2>3, <2>4, <2>5, <2>6, <2>7 DEF IInv
<1>33. CASE StrayEnds
  <2>1. Shape'
    BY <1>33, <1>l, RequestsAssumption
    DEF IInv, Shape, Chain, Kinds, WaitPlaces, StrayEnds, Answer, Yielded
  <2>2. Counts' /\ Kinds'
    BY <1>33 DEF IInv, Counts, Kinds, Stages, ErrorsAnswered, HooksPlaces, OneResponse,
       StrayEnds, Answer, Yielded
  <2>3. OutHolds' /\ OneResponse'
    <3>1. \E how \in {"none", "now", "deferred"} : Answer(how)
      BY <1>33 DEF Answers, StrayEnds, Yielded
    <3> QED
      BY <3>1, AnswerKeeps DEF IInv
  <2>4. RouterFresh' /\ ErrPlaces' /\ HandlerPlaces' /\ ErrorsAnswered'
    BY <1>33 DEF IInv, Counts, Kinds, Stages, OneResponse, RouterFresh, ErrPlaces,
       HandlerPlaces,
       ErrorsAnswered, StrayEnds, Answer, Yielded
  <2>5. HooksPlaces'
    BY <1>33 DEF IInv, HooksPlaces, StrayEnds, Answer, Yielded
  <2>6. WaitPlaces'
    BY <1>33, <1>l DEF IInv, Shape, Chain, Kinds, WaitPlaces, StrayEnds, Answer, Yielded
  <2>7. DirectPlaces'
    BY <1>33 DEF IInv, DirectPlaces, StrayEnds, Answer, Yielded
  <2> QED
    BY <2>1, <2>2, <2>3, <2>4, <2>5, <2>6, <2>7 DEF IInv
<1>34. CASE Flush
  <2>1. Shape'
    BY <1>34, <1>l, RequestsAssumption
    DEF IInv, Shape, Chain, Kinds, WaitPlaces, Flush, Compressed, Yielded
  <2>2. Counts' /\ Kinds'
    BY <1>34 DEF IInv, Counts, Kinds, Stages, ErrorsAnswered, HooksPlaces, OneResponse,
       Flush, Compressed, Yielded
  <2>3. OutHolds' /\ OneResponse'
    <3>1. sent' = TRUE /\ answered' = answered /\ written' = IF sent THEN written ELSE written + 1
      BY <1>34 DEF Flush, Compressed
    <3>2. answered
      BY <1>34 DEF IInv, OutHolds, Flush
    <3>3. written' = 1
      BY <3>1 DEF IInv, OneResponse
    <3> QED
      BY <3>1, <3>2, <3>3 DEF OutHolds, OneResponse
  <2>4. RouterFresh' /\ ErrPlaces' /\ HandlerPlaces' /\ ErrorsAnswered'
    BY <1>34 DEF IInv, Counts, Kinds, Stages, OneResponse, RouterFresh, ErrPlaces,
       HandlerPlaces,
       ErrorsAnswered, Flush, Compressed, Yielded
  <2>5. HooksPlaces'
    BY <1>34 DEF IInv, HooksPlaces, Flush, Compressed, Yielded
  <2>6. WaitPlaces'
    BY <1>34, <1>l DEF IInv, Shape, Chain, Kinds, WaitPlaces, Flush, Compressed, Yielded
  <2>7. DirectPlaces'
    BY <1>34 DEF IInv, DirectPlaces, Flush, Compressed, Yielded
  <2> QED
    BY <2>1, <2>2, <2>3, <2>4, <2>5, <2>6, <2>7 DEF IInv
<1>35. CASE Finish
  <2>1. Shape'
    BY <1>35, <1>l, RequestsAssumption
    DEF IInv, Shape, Chain, Kinds, WaitPlaces, Finish, Yielded
  <2>2. Counts' /\ Kinds'
    BY <1>35 DEF IInv, Counts, Kinds, Stages, ErrorsAnswered, HooksPlaces, OneResponse,
       Finish, Yielded
  <2>3. OutHolds' /\ OneResponse'
    BY <1>35 DEF IInv, Counts, Kinds, OutHolds, OneResponse, RouterFresh, Finish, Yielded
  <2>4. RouterFresh' /\ ErrPlaces' /\ HandlerPlaces' /\ ErrorsAnswered'
    BY <1>35 DEF IInv, Counts, Kinds, Stages, OneResponse, RouterFresh, ErrPlaces,
       HandlerPlaces,
       ErrorsAnswered, Finish, Yielded
  <2>5. HooksPlaces'
    BY <1>35 DEF IInv, HooksPlaces, Finish, Yielded
  <2>6. WaitPlaces'
    BY <1>35, <1>l DEF IInv, Shape, Chain, Kinds, WaitPlaces, Finish, Yielded
  <2>7. DirectPlaces'
    BY <1>35 DEF IInv, DirectPlaces, Finish, Yielded
  <2> QED
    BY <2>1, <2>2, <2>3, <2>4, <2>5, <2>6, <2>7 DEF IInv
<1>36. CASE UNCHANGED vars
  BY <1>36 DEF vars, IInv, Shape, Chain, Counts, Kinds, OutHolds, OneResponse,
     RouterFresh, ErrPlaces,
     ErrorsAnswered, HandlerPlaces, HooksPlaces, WaitPlaces, DirectPlaces
<1> QED
  BY <1>1, <1>2, <1>3, <1>4, <1>5, <1>6, <1>7, <1>8, <1>9, <1>10, <1>11,
     <1>12, <1>13, <1>14, <1>15, <1>16, <1>17, <1>18, <1>19, <1>20, <1>21,
     <1>22, <1>23, <1>24, <1>25, <1>26, <1>27, <1>28, <1>29, <1>30, <1>31,
     <1>32, <1>33, <1>34, <1>35, <1>36
  DEF Next, Chained, Routed, Erring, Resuming

-----------------------------------------------------------------------------
(* The theorems                                                             *)

\* Every variable keeps its type.
THEOREM TypeCorrect == Spec => []TypeOK
<1>1. IInv => TypeOK
  BY TypeParts DEF IInv
<1> QED
  BY InitIInv, NextIInv, <1>1, PTL DEF Spec

\* One request is answered with one response, whatever middleware, hooks,
\* handlers and error handlers do (http-server.ts, unified-router.ts).
THEOREM OneResponseHolds == Spec => []OneResponse
<1>1. IInv => OneResponse
  BY DEF IInv
<1> QED
  BY InitIInv, NextIInv, <1>1, PTL DEF Spec

\* An error that is caught is reported once and answered.
THEOREM ErrorsAnsweredHolds == Spec => []ErrorsAnswered
<1>1. IInv => ErrorsAnswered
  BY DEF IInv
<1> QED
  BY InitIInv, NextIInv, <1>1, PTL DEF Spec

\* The handler is called once at most, with no error active, and after an
\* answer only while that is being compressed or on a direct route.
LEMMA FreshStep ==
    ASSUME IInv, Next, handlerRuns' # handlerRuns
    PROVE  /\ handlerRuns = 0 /\ err = "none"
           /\ answered => deferred > 0 \/ req.route = "direct"
<1> USE DEF counts
<1>1. FastRoute \/ PhasesEnd \/ DirectHandler
  <2>1. ~(Chained \/ Erring \/ Resuming \/ StrayEnds \/ Flush \/ Finish)
    BY DEF Chained, Erring, Resuming, SkipMiddleware, MiddlewareSettles,
       MiddlewareWaits, ChainStops,
       ChainEnds, ChainThrows, AnswerError, RunErrorHandler, ErrorHandlerWaits, ErrorHandlerSettles,
       MiddlewareResumes, PhaseResumes, AwaitedAnswers, StrayEnds, Flush, Finish
  <2>2. ~(Arrive \/ ParseBody \/ BodyFails \/ HookAnswers \/ HooksReturn \/ HooksThrow
          \/ HandlerReturns \/ HandlerRejects)
    BY DEF Arrive, ParseBody, BodyFails, HookAnswers, HooksReturn, HooksThrow,
       HandlerReturns,
       HandlerRejects
  <2> QED
    BY <2>1, <2>2 DEF Next, Routed, Unrouted, PhasedRoute, CorePhase, PhaseMiddleware,
       PhaseThrows,
       PhasesStop, NoDirectRoute, DirectRoute
<1>2. stage \in {"router", "phases", "directHandler"}
  BY <1>1 DEF FastRoute, PhasesEnd, DirectHandler
<1>3. handlerRuns = 0 /\ err = "none"
  BY <1>2 DEF IInv, HandlerPlaces, ErrPlaces
<1>4. CASE FastRoute \/ PhasesEnd
  <2>1. ~sent
    BY <1>4 DEF FastRoute, PhasesEnd, IInv, RouterFresh
  <2> QED
    BY <1>3, <2>1 DEF IInv, OutHolds
<1>5. CASE DirectHandler
  BY <1>3, <1>5 DEF IInv, DirectPlaces, DirectHandler
<1> QED
  BY <1>1, <1>4, <1>5

THEOREM HandlerStartsFreshHolds == Spec => HandlerStartsFresh
<1>1. IInv /\ [Next]_vars =>
          [handlerRuns' # handlerRuns =>
              /\ handlerRuns = 0 /\ err = "none"
              /\ answered => deferred > 0 \/ req.route = "direct"]_vars
  BY FreshStep DEF vars, counts
<1> QED
  BY InitIInv, NextIInv, <1>1, PTL DEF Spec, HandlerStartsFresh

-----------------------------------------------------------------------------
(* Sessions                                                                 *)

HistoryOK ==
    /\ changed \subseteq Visits /\ missed \subseteq Visits /\ stored \subseteq Visits /\ gone \subseteq Ids
    /\ goneBefore \in [Visits -> SUBSET Ids]

Attached(r) == visit[r] \notin {"idle", "sent"}

\* What a handler set is in its session's data, and stored or marked modified:
\* the mark is what makes the hook save.  While it is not stored no save() waits
\* that would take the mark away, unless it was waiting when the handler set it.
Kept(r) ==
    /\ r \in data[r] /\ Attached(r)
    /\ r \in stored \/ r \in missed \/ (visit[r] # "done" /\ isModified[r] /\ ~saving[r])

\* An id is new to the store and to every history when it is generated, and
\* whoever is attached to a session was so before it was destroyed.
FreshIds ==
    /\ \A i \in unused : store[i] = {} /\ i \notin gone
    /\ \A r \in Visits, i \in unused : i \notin goneBefore[r]
OwnId(r) == id[r] \in Ids \ unused /\ id[r] \notin goneBefore[r]

SessionInv ==
    /\ SessionTypeOK /\ HistoryOK
    /\ \A r \in changed : Kept(r)
    /\ FreshIds
    /\ \A r \in Visits : Attached(r) => OwnId(r)
    /\ \A i \in gone : store[i] = {}

\* What storing a session does.
LEMMA StoreOK ==
  ASSUME SessionInv, NEW r \in Visits, Attached(r), visit[r] # "done", Store(r),
         visit' \in {visit, [visit EXCEPT ![r] = "done"]},
         \E m, n, w \in BOOLEAN : /\ isModified' = [isModified EXCEPT ![r] = m]
                                 /\ isNew' = [isNew EXCEPT ![r] = n]
                                 /\ saving' = [saving EXCEPT ![r] = w],
         UNCHANGED <<unused, jar, cookie, setCookie, id, data, storeFaults, changed, missed,
                     goneBefore>>
  PROVE  SessionInv'
<1> USE DEF Attached
<1>1. id[r] \in Ids /\ id[r] \notin unused
  BY DEF SessionInv, OwnId
<1>2. SessionTypeOK'
  BY <1>1 DEF Store, SessionInv, SessionTypeOK, VisitStages
<1>3. HistoryOK'
  BY <1>1 DEF Store, SessionInv, HistoryOK, SessionTypeOK
<1>4. ASSUME NEW q \in changed' PROVE Kept(q)'
  <2>1. q \in changed /\ q \in Visits /\ Kept(q)
    BY <1>4 DEF SessionInv, HistoryOK
  <2>2. CASE q = r
    <3>1. r \in data[r] /\ data' = data /\ stored' = stored \cup {r}
      BY <2>1, <2>2 DEF Store, Kept
    <3>2. visit'[r] \in {visit[r], "done"}
      BY DEF SessionInv, SessionTypeOK
    <3> QED BY <2>2, <3>1, <3>2 DEF Kept
  <2>3. CASE q # r
    <3>1. visit'[q] = visit[q] /\ isModified'[q] = isModified[q] /\ saving'[q] = saving[q]
          /\ stored \subseteq stored'
      BY <2>1, <2>3 DEF Store, SessionInv, SessionTypeOK
    <3> QED BY <2>1, <3>1 DEF Kept
  <2> QED BY <2>2, <2>3
<1>5. FreshIds'
  BY <1>1 DEF Store, SessionInv, SessionTypeOK, FreshIds
<1>6. \A q \in Visits : Attached(q)' => OwnId(q)'
  BY <1>1 DEF SessionInv, SessionTypeOK, OwnId
<1>7. \A i \in gone' : store'[i] = {}
  BY <1>1 DEF Store, SessionInv, SessionTypeOK, HistoryOK
<1> QED BY <1>2, <1>3, <1>4, <1>5, <1>6, <1>7 DEF SessionInv

\* attachSession gives the request an entry that holds data, and so was not
\* destroyed, or an id nobody has seen.
LEMMA AttachOK ==
  ASSUME SessionInv, NEW r \in Visits, Attach(r)
  PROVE  SessionInv'
<1> USE DEF Attached
<1>1. PICK fails \in BOOLEAN, i \in Ids :
        /\ fails => storeFaults < MaxFaults /\ cookie[r] # None
        /\ storeFaults' = storeFaults + (IF fails THEN 1 ELSE 0)
        /\ AttachedId(r, i, fails)
        /\ id' = [id EXCEPT ![r] = i]
        /\ unused' = unused \ {i}
        /\ data' = [data EXCEPT ![r] = Loaded(r, fails)]
        /\ isNew' = [isNew EXCEPT ![r] = (Loaded(r, fails) = {})]
        /\ setCookie' = [setCookie EXCEPT ![r] = IF isNew'[r] \/ Rolling THEN i ELSE None]
  BY DEF Attach
<1>2. /\ visit[r] = "sent" /\ visit' = [visit EXCEPT ![r] = "handling"]
      /\ goneBefore' = [goneBefore EXCEPT ![r] = gone]
      /\ UNCHANGED <<store, jar, cookie, isModified, saving, changed, missed, stored, gone>>
  BY DEF Attach, At, Move
<1>3. Loaded(r, fails) \in SUBSET Visits
  BY DEF Loaded, SessionInv, SessionTypeOK
<1>4. i \notin gone
  BY <1>1 DEF AttachedId, Loaded, SessionInv, FreshIds
<1>5. SessionTypeOK'
  <2>1. storeFaults' \in 0..MaxFaults
    BY <1>1, SessionsAssumption DEF SessionInv, SessionTypeOK
  <2> QED BY <1>1, <1>2, <1>3, <2>1 DEF SessionInv, SessionTypeOK, VisitStages
<1>6. HistoryOK'
  BY <1>2 DEF SessionInv, HistoryOK
<1>7. r \notin changed
  BY <1>2 DEF SessionInv, Kept
<1>8. \A q \in changed' : Kept(q)'
  BY <1>1, <1>2, <1>7 DEF SessionInv, HistoryOK, Kept, SessionTypeOK
<1>9. FreshIds'
  BY <1>1, <1>2 DEF SessionInv, FreshIds, HistoryOK
<1>10. ASSUME NEW q \in Visits, Attached(q)' PROVE OwnId(q)'
  <2>1. CASE q = r
    BY <1>1, <1>2, <1>4, <2>1 DEF SessionInv, OwnId, SessionTypeOK, HistoryOK
  <2>2. CASE q # r
    BY <1>1, <1>2, <1>10, <2>2 DEF SessionInv, OwnId, SessionTypeOK, HistoryOK
  <2> QED BY <2>1, <2>2
<1>11. \A j \in gone' : store'[j] = {}
  BY <1>2 DEF SessionInv
<1> QED BY <1>5, <1>6, <1>8, <1>9, <1>10, <1>11 DEF SessionInv

LEMMA SessionNextOK ==
  ASSUME SessionInv, [SessionNext]_sessionVars
  PROVE  SessionInv'
<1> USE DEF Attached, At, Move
<1>0. \A r \in Visits : Attached(r) => OwnId(r)
  BY DEF SessionInv
<1>1. ASSUME NEW r \in Visits, Send(r) PROVE SessionInv'
  BY <1>1 DEF Send, session, history, SessionInv, SessionTypeOK,
     VisitStages, HistoryOK, Kept, FreshIds, OwnId
<1>2. ASSUME NEW r \in Visits, Attach(r) PROVE SessionInv'
  BY <1>2, AttachOK
<1>3. ASSUME NEW r \in Visits, Change(r) PROVE SessionInv'
  BY <1>3 DEF Change, client, SessionInv, SessionTypeOK,
     HistoryOK, Kept, FreshIds, OwnId
<1>4. ASSUME NEW r \in Visits, SaveNow(r) PROVE SessionInv'
  <2>1. isModified[r] \in BOOLEAN /\ isNew[r] \in BOOLEAN /\ Rolling \in BOOLEAN
        /\ isNew \in [Visits -> BOOLEAN]
    BY SessionsAssumption DEF SessionInv, SessionTypeOK
  <2>2. \E m, n, w \in BOOLEAN : /\ isModified' = [isModified EXCEPT ![r] = m]
                                /\ isNew' = [isNew EXCEPT ![r] = n]
                                /\ saving' = [saving EXCEPT ![r] = w]
    <3>1. PICK t \in BOOLEAN : isModified' = [isModified EXCEPT ![r] = isModified[r] \/ t]
      BY <1>4, <2>1 DEF SaveNow
    <3>2. isNew' = [isNew EXCEPT ![r] = isNew[r]] /\ saving' = [saving EXCEPT ![r] = TRUE]
      BY <1>4, <2>1 DEF SaveNow
    <3>3. (isModified[r] \/ t) \in BOOLEAN
      BY <2>1
    <3> QED BY <2>1, <3>1, <3>2, <3>3
  <2> QED BY <1>4, <2>2, StoreOK DEF SaveNow, client
<1>5. ASSUME NEW r \in Visits, Destroy(r) \/ Regenerate(r) PROVE SessionInv'
  <2>1. PICK s \in {"destroying", "regenerating"} : Delete(r, s)
    BY <1>5 DEF Destroy, Regenerate
  <2>2. id[r] \in Ids \ unused
    BY <1>0, <2>1 DEF Delete, OwnId
  <2>3. /\ visit[r] = "handling" /\ visit' = [visit EXCEPT ![r] = s]
        /\ store' = [store EXCEPT ![id[r]] = {}]
        /\ gone' = gone \cup {id[r]}
        /\ UNCHANGED <<unused, jar, cookie, setCookie, id, data, isNew, isModified, saving,
                       storeFaults, changed, missed, stored, goneBefore>>
    BY <2>1 DEF Delete, client, session
  <2>4. SessionTypeOK' /\ HistoryOK'
    BY <2>2, <2>3 DEF SessionInv, SessionTypeOK, VisitStages, HistoryOK
  <2>5. \A q \in changed' : Kept(q)'
    BY <2>3 DEF SessionInv, SessionTypeOK, HistoryOK, Kept
  <2>6. FreshIds' /\ \A i \in gone' : store'[i] = {}
    BY <2>2, <2>3 DEF SessionInv, SessionTypeOK, HistoryOK, FreshIds
  <2>7. \A q \in Visits : Attached(q)' => OwnId(q)'
    BY <1>0, <2>3 DEF SessionInv, SessionTypeOK, OwnId
  <2> QED BY <2>4, <2>5, <2>6, <2>7 DEF SessionInv
<1>6. ASSUME NEW r \in Visits, Destroyed(r) PROVE SessionInv'
  BY <1>6 DEF Destroyed, client, SessionInv, SessionTypeOK,
     VisitStages, HistoryOK, Kept, FreshIds, OwnId
<1>7. ASSUME NEW r \in Visits, Regenerated(r) PROVE SessionInv'
  <2>1. PICK i \in unused : id' = [id EXCEPT ![r] = i] /\ unused' = unused \ {i}
    BY <1>7 DEF Regenerated
  <2>2. /\ visit[r] = "regenerating" /\ visit' = [visit EXCEPT ![r] = "handling"]
        /\ data' = [data EXCEPT ![r] = {}]
        /\ isNew' = [isNew EXCEPT ![r] = TRUE]
        /\ isModified' = [isModified EXCEPT ![r] = TRUE]
        /\ changed' = changed \ {r} /\ missed' = missed \ {r} /\ stored' = stored \ {r}
        /\ UNCHANGED <<store, jar, cookie, setCookie, saving, storeFaults, gone, goneBefore>>
    BY <1>7 DEF Regenerated, client
  <2>3. SessionTypeOK' /\ HistoryOK'
    BY <2>1, <2>2 DEF SessionInv, SessionTypeOK, VisitStages, HistoryOK
  <2>4. \A q \in changed' : Kept(q)'
    BY <2>2 DEF SessionInv, SessionTypeOK, HistoryOK, Kept
  <2>5. FreshIds' /\ \A j \in gone' : store'[j] = {}
    BY <2>1, <2>2 DEF SessionInv, FreshIds
  <2>6. ASSUME NEW q \in Visits, Attached(q)' PROVE OwnId(q)'
    <3>1. CASE q = r
      BY <2>1, <2>2, <3>1 DEF SessionInv, SessionTypeOK, OwnId, FreshIds
    <3>2. CASE q # r
      BY <1>0, <2>1, <2>2, <2>6, <3>2 DEF SessionInv, SessionTypeOK, OwnId
    <3> QED BY <3>1, <3>2
  <2> QED BY <2>3, <2>4, <2>5, <2>6 DEF SessionInv
<1>8. ASSUME NEW r \in Visits, Respond(r) PROVE SessionInv'
  BY <1>8 DEF Respond, session, history, SessionInv, SessionTypeOK,
     VisitStages, HistoryOK, Kept, FreshIds, OwnId
<1>9. ASSUME NEW r \in Visits, Save(r) PROVE SessionInv'
  <2>1. /\ isModified' = [isModified EXCEPT ![r] = FALSE]
        /\ isNew' = [isNew EXCEPT ![r] = FALSE]
        /\ saving[r] \in BOOLEAN /\ saving' = [saving EXCEPT ![r] = saving[r]]
    BY <1>9 DEF Save, Clean, SessionInv, SessionTypeOK
  <2> QED BY <1>9, <2>1, StoreOK DEF Save, client
<1>10. ASSUME NEW r \in Visits, SaveFails(r) PROVE SessionInv'
  <2>1. storeFaults' \in 0..MaxFaults
    BY <1>10, SessionsAssumption DEF SaveFails, SessionInv, SessionTypeOK
  <2> QED BY <1>10, <2>1 DEF SaveFails, client, session, SessionInv,
          SessionTypeOK, VisitStages, HistoryOK, Kept, FreshIds, OwnId
<1>11. ASSUME NEW r \in Visits, SaveSkipped(r) PROVE SessionInv'
  BY <1>11 DEF SaveSkipped, Saves, client, session,
     history, SessionInv, SessionTypeOK, VisitStages, HistoryOK, Kept,
     FreshIds, OwnId
<1>12. ASSUME NEW i \in Ids, Expire(i) PROVE SessionInv'
  BY <1>12 DEF Expire, client, session,
     history, SessionInv, SessionTypeOK, HistoryOK, Kept, FreshIds, OwnId
<1>13. ASSUME NEW r \in Visits, Saved(r) PROVE SessionInv'
  BY <1>13 DEF Saved, Clean, client, history, SessionInv, SessionTypeOK, HistoryOK, Kept,
     FreshIds, OwnId
<1>14. CASE UNCHANGED sessionVars
  BY <1>14 DEF sessionVars, client, session, history, SessionInv,
     SessionTypeOK, HistoryOK, Kept, FreshIds, OwnId
<1> QED BY <1>1, <1>2, <1>3, <1>4, <1>5, <1>6, <1>7, <1>8, <1>9, <1>10, <1>11, <1>12,
        <1>13, <1>14 DEF SessionNext

LEMMA SessionInvariance == SessionSpec => []SessionInv
<1>1. SessionInit => SessionInv
  BY SessionsAssumption DEF SessionInit, SessionInv, SessionTypeOK, VisitStages, HistoryOK,
     Kept, FreshIds, OwnId, Attached
<1>2. SessionInv /\ [SessionNext]_sessionVars => SessionInv'
  BY SessionNextOK
<1> QED BY <1>1, <1>2, PTL DEF SessionSpec

\* Every variable of a session keeps its type.
THEOREM SessionTypeCorrect == SessionSpec => []SessionTypeOK
<1>1. SessionInv => SessionTypeOK
  BY DEF SessionInv
<1> QED BY <1>1, SessionInvariance, PTL

\* What a handler set and did not destroy has been given to the store when its
\* request is over, whatever it saved, destroyed or regenerated before, unless an
\* earlier save() of the request was waiting for the store when it set it.
THEOREM ChangesAreSaved == SessionSpec => []ChangesSaved
<1>1. SessionInv => ChangesSaved
  BY DEF SessionInv, Kept, ChangesSaved, At
<1> QED BY <1>1, SessionInvariance, PTL

\* The request that brings a destroyed session back was attached to it before it
\* was destroyed.
THEOREM DestroyedStaysGone == SessionSpec => RevivedByOverlapOnly
<1> DEFINE Revived ==
      \A i \in gone : store'[i] # {} =>
        \E r \in Visits : Acts(r) /\ id[r] = i /\ i \notin goneBefore[r]
<1>1. SessionInv /\ [SessionNext]_sessionVars => [Revived]_sessionVars
  <2> SUFFICES ASSUME SessionInv, SessionNext, NEW i \in gone, store'[i] # {}
               PROVE  \E r \in Visits : Acts(r) /\ id[r] = i /\ i \notin goneBefore[r]
    OBVIOUS
  <2>1. /\ store[i] = {} /\ i \in Ids /\ store \in [Ids -> SUBSET Visits]
        /\ visit \in [Visits -> VisitStages] /\ saving \in [Visits -> BOOLEAN]
    BY DEF SessionInv, HistoryOK, SessionTypeOK
  <2>2. ASSUME NEW r \in Visits, Store(r), Attached(r)
        PROVE  id[r] = i /\ i \notin goneBefore[r]
    BY <2>1, <2>2 DEF Store, SessionInv, OwnId
  <2>3. ASSUME NEW r \in Visits, SaveNow(r) \/ Save(r)
        PROVE  Acts(r) /\ id[r] = i /\ i \notin goneBefore[r]
    <3>1. Acts(r)
      BY <2>1, <2>3 DEF SaveNow, Save, At, Move, Acts
    <3> QED BY <2>2, <2>3, <3>1 DEF SaveNow, Save, At, Attached
  <2>4. ASSUME NEW r \in Visits, Destroy(r) \/ Regenerate(r) PROVE FALSE
    BY <2>1, <2>4 DEF Destroy, Regenerate, Delete
  <2>5. ASSUME NEW j \in Ids, Expire(j) PROVE FALSE
    BY <2>1, <2>5 DEF Expire
  <2>6. ASSUME UNCHANGED store PROVE FALSE
    BY <2>1, <2>6
  <2> QED BY <2>3, <2>4, <2>5, <2>6 DEF SessionNext, Send, Attach, Change, Saved, Destroyed,
          Regenerated, Respond, SaveFails, SaveSkipped
<1>2. SessionSpec => [][Revived]_sessionVars
  BY <1>1, SessionInvariance, PTL DEF SessionSpec
<1> QED BY <1>2, PTL DEF RevivedByOverlapOnly
=============================================================================
