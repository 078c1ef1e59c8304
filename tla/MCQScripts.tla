------------------------------ MODULE MCQScripts ------------------------------
(* One script per way to combine two sources; some look at what they get.    *)
EXTENDS QScripts

V == <<"value", 0>>
E == <<"reason", 0>>
One == Deferred(1)
Two == Deferred(2)
Both == Array(<<One, Two>>)
Returns(x) == <<"returns", x>>
Got == <<"held", 1>>

\* A call with all the arguments that calls may have.
C(call, of, fulfilled, rejected, progressed, value) ==
  [call |-> call, of |-> of, fulfilled |-> fulfilled, rejected |-> rejected,
   progressed |-> progressed, value |-> value]

Plain(call, of) == C(call, of, None, None, None, None)
Uses(call, of, f) == C(call, of, f, None, None, None)
ThenOn(x, f, r, p) == C("then", x, f, r, p, None)
Value(call, of, x) == C(call, of, None, None, None, x)

See == ThenOn(Got, Returns(V), None, Returns(V))

Throwing(e) == <<"throws", e>>
Wild == <<"thenable", "throws">>
Tame == <<"thenable", "keeps">>

TheScripts ==
  {<<ThenOn(One, Returns(Two), Returns(V), None), ThenOn(One, None, None, Throwing(E)), See>>,
   <<ThenOn(One, Returns(Wild), None, None), C("done", Got, None, Throwing(E), None, None)>>,
   <<ThenOn(One, Returns(Tame), None, None), See>>,
   <<Plain("all", Both), See>>,
   <<Plain("any", Both)>>,
   <<Plain("any", Array(<<>>)), Plain("any", Array(<<One, V>>))>>,
   <<Plain("race", Both), See>>,
   <<Plain("raceOf", Both)>>,
   <<Plain("allSettled", Both)>>,
   <<Plain("allResolved", Array(<<One, V>>))>>,
   <<C("spread", Both, Throwing(E), Returns(V), None, None)>>,
   <<Plain("join", Array(<<One, One>>)), See>>,
   <<Uses("promised", Both, Returns(V))>>,
   <<Uses("finally", One, Returns(Two)), See>>,
   <<Uses("finally", One, Throwing(E)), C("fail", Got, None, Returns(V), None, None)>>,
   <<Uses("tap", One, Returns(Two)), Plain("done", Got)>>,
   <<Plain("timeout", One), See>>,
   <<Plain("delay", One), C("progress", One, None, None, Returns(V), None)>>,
   <<Uses("nfapply", None, <<"callsBack", E, V>>), Uses("nfapply", None, <<"callsBack", None, V>>)>>,
   <<Uses("nfapply", None, Throwing(E)), Plain("nodeify", Got)>>,
   <<Plain("nodeify", One), Value("ask", One, Throwing(E))>>,
   <<Plain("fcall", One)>>,
   <<Value("async", None, <<"generator", <<One, V, Two>>, Returns(V)>>)>>,
   <<Value("spawn", None, <<"generator", <<One>>, Throwing(E)>>)>>,
   <<Value("promise", None, <<"keeps">>), Value("thenResolve", Got, V)>>,
   <<Value("promise", None, Throwing(E)), Value("thenReject", One, E)>>}

=============================================================================
