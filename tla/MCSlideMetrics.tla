--------------------------- MODULE MCSlideMetrics ---------------------------
(* All evenly spaced series of four samples and all unevenly spaced ones of five, with
   offsets from three values; and a few of seven for windows of two samples. *)
EXTENDS SlideMetrics

Samples(times, offsets) ==
    [i \in DOMAIN offsets |-> [time |-> times[i], offset |-> offsets[i]]]

MCSeries ==
    {Samples(<<1, 2, 3, 4>>, x) : x \in [1..4 -> {-1, 0, 2}]}
    \cup {Samples(<<1, 2, 2, 5, 6>>, x) : x \in [1..5 -> {-1, 0, 2}]}
    \cup {Samples(<<1, 2, 3, 4, 5, 6, 7>>, x) :
            x \in {<<0, 2, 1, 4, 3, 0, 5>>, <<5, 4, 3, 2, 1, 0, 6>>, <<1, 1, 0, 0, 2, 2, 1>>}}
=============================================================================
