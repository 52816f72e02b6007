------------------------------ MODULE MCH1Conn ------------------------------
(* Instances of H1Conn for TLC. *)
EXTENDS H1Conn

Shape(f, b, c, w, m) == [framing |-> f, body |-> b, close |-> c, ws |-> w, bad |-> m]

Plain   == Shape("none", <<>>, FALSE, FALSE, "ok")
Upgrade == Shape("none", <<>>, FALSE, TRUE, "ok")
Closing == Shape("none", <<>>, TRUE, FALSE, "ok")

Chunked(b, c, m) == Shape("chunked", b, c, FALSE, m)

GoodShapes ==
  { Plain, Upgrade, Closing, Shape("cl", <<2>>, FALSE, FALSE, "ok"),
    Chunked(<<1, 2>>, FALSE, "ok"), Chunked(<<>>, TRUE, "ok") }

(* Every place a request can be malformed. *)
BadShapes ==
  { Chunked(<<1>>, FALSE, k) :
      k \in {"line0", "line", "head", "size", "crlf", "trailer"} }

(* A request of any shape, a second one behind it, and a third, which the cap
   of two requests must keep from the handler. *)
Pipelined ==
  [r \in 1..3 |-> CASE r = 1 -> GoodShapes \cup BadShapes
                    [] r = 2 -> GoodShapes \ {Closing, Chunked(<<1, 2>>, FALSE, "ok")}
                    [] r = 3 -> {Plain}]

(* Three short requests, for the run that looks for a disagreement. *)
Short == [r \in 1..3 |-> {Plain, Upgrade, Closing}]

=============================================================================
