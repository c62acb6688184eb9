----------------------------- MODULE MCConsole -----------------------------
EXTENDS Console, FiniteSets

D(spelled, kind, arg) ==
  [spelled |-> spelled, kind |-> kind, arg |-> arg, takes |-> kind \notin {"raw", "percent", "unknown"},
   base |-> 10, width |-> 0]

Words == {0, 9, 10, 127, 128, 255}
Common == {D(<<"a">>, "raw", 0), D(<<"NL">>, "raw", 0), D(<<"%", "%">>, "percent", 0)}
Texts == {D(<<"%", "s">>, "text", <<"a", "b", "c">>), D(<<"%", "c">>, "char", "c")}
Numbers ==
  {D(<<"%", "d">>, "int", w) : w \in Words}
    \cup {[D(<<"%", "l", "x">>, "uint", w) EXCEPT !.base = 16] : w \in Words}
    \cup {[D(<<"%", "z", "o">>, "uint", w) EXCEPT !.base = 8] : w \in {7, 64}}
Unknown == {D(<<"%", "q">>, "unknown", 0), D(<<"%", "z", "d">>, "unknown", 0)}
Pairs(S) == {<<d>> : d \in S} \cup {<<d, e>> : d \in S, e \in S}
MCPrintfCalls == Pairs(Common \cup Numbers \cup Texts \cup Unknown)

Decimals == {[D(<<"%", "d">>, "dec", w) EXCEPT !.width = 0] : w \in Words}
              \cup {[D(<<"%", "0", "4", "d">>, "dec", w) EXCEPT !.width = 4] : w \in Words}
MCLogCalls ==
  Pairs(Common \cup Texts \cup Decimals
          \cup {D(<<"%", "4", "x">>, "hex", 200), D(<<"%", "s">>, "text", Null)})
MCBanner == <<D(<<"%", "d">>, "int", 12), D(<<"a">>, "raw", 0), D(<<"b">>, "raw", 0),
              D(<<"a">>, "raw", 0), D(<<"NL">>, "raw", 0)>>

MCEchoesInside == {<<"x">>, <<"BS">>}
MCEchoes == MCEchoesInside \cup {<<"NL">>, AddrText(31), NoFreeMemory \o AddrText(0)}
=============================================================================
