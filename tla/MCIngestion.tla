----------------------------- MODULE MCIngestion -----------------------------
(* Ingestion for TLC: one image with two captions, an answer to a list,    *)
(* without a title, that says what one of the captions says, and a gif.    *)
EXTENDS Ingestion

CONSTANTS image1, image2, list1, gif1, s1, s2, w1, w2, u1

Silent == [main |-> None, other |-> None, spare |-> None, media |-> None]

\* A payload with one part.
Sole(k, f) ==
    [signs |-> {}, has |-> {k}, part |-> [j \in Parts |-> IF j = k THEN f ELSE Silent]]

Image(raw) == Sole("image", [Silent EXCEPT !.main = raw, !.media = u1])

Payloads ==
    [m \in Posts |->
        CASE m = image1 -> Image({w1})
          [] m = image2 -> Image({w2})
          [] m = list1 -> Sole("list", [Silent EXCEPT !.main = {w1}, !.other = Blank])
          [] m = gif1 -> [Image({w1}) EXCEPT !.signs = {"gif"}]]

SenderEach == [m \in Posts |-> IF m = gif1 THEN s2 ELSE s1]
Times == [m \in Posts |-> IF m = list1 THEN 2 ELSE 1]

=============================================================================
