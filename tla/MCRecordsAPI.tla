---------------------------- MODULE MCRecordsAPI ----------------------------
(* Three records: two fixed ones, and one whose response body is a text of  *)
(* up to three characters, or of up to two or a longer one compressed.  In  *)
(* one more of the contents, a URL cannot be parsed and a request cannot be *)
(* read.                                                                    *)
EXTENDS RecordsAPI

CONSTANTS q1, q2, q3

MCRequests == {q1, q2, q3}
MCSafe     == {"a", "A", "b", "c", "0", "2"}
MCUnsafe   == {"-", "#"}
MCLowerOf  == [c \in MCSafe |-> IF c = "A" THEN "a" ELSE c]

\* Two digits of base three for each of the nine characters.
MCHexDigit == 0..2

MCHexOf ==
  ("a" :> <<0, 0>>) @@ ("A" :> <<0, 1>>) @@ ("b" :> <<0, 2>>) @@ ("c" :> <<1, 0>>) @@
  ("0" :> <<1, 1>>) @@ ("2" :> <<1, 2>>) @@ ("-" :> <<2, 0>>) @@ ("#" :> <<2, 1>>) @@
  (" " :> <<2, 2>>)

\* gzip has the header "#", and its bytes are no words of the text.
Coded   == ("a" :> "-") @@ ("A" :> "2") @@ ("-" :> "b") @@ ("b" :> "c")
Gzip(s) == <<"#">> \o [i \in DOMAIN s |-> Coded[s[i]]]

MCGunzip(s) ==
  IF s = <<>> \/ s[1] # "#" THEN NotGzip
  ELSE [i \in 1..(Len(s) - 1) |-> CHOOSE c \in DOMAIN Coded : Coded[c] = s[i + 1]]

\* The numbers of one digit.
MCNumberIn(t) ==
  IF t # <<>> /\ Last(t) \in {"0", "2"} /\ Range(Front(t)) \subseteq {"0"}
  THEN IF Last(t) = "2" THEN 2 ELSE 0
  ELSE -1

Exchange(h, n, u, d, i) ==
  [host |-> h, method |-> <<"b">>, status |-> n, up |-> u, down |-> d, images |-> i,
   url |-> TRUE, read |-> TRUE]

Content(d) ==
  (q1 :> Exchange(<<"c">>, 2, <<>>, d, {})) @@
  (q2 :> Exchange(<<"b", "-", "a">>, 2, <<"a", "A">>, Gzip(<<"a", "b", "-">>), {"response"})) @@
  (q3 :> Exchange(<<"a">>, 0, <<"b">>, <<"b", "a", "-">>, {"request"}))

Bodies ==
  BoundedSeq({"A", "-"}, 3)
    \cup {Gzip(s) : s \in {<<>>, <<"A">>, <<"A", "A">>, <<"A", "A", "-">>}}

MCContents ==
  {Content(d) : d \in Bodies}
    \cup {[Content(<<"a">>) EXCEPT ![q2].url = FALSE, ![q3].read = FALSE]}

MCQueries == {<<>>, <<"A", "a", "-", "b">>, <<"c", "-", "0", "2">>}
=============================================================================
