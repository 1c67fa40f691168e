---------------------------- MODULE MCQuantizer ----------------------------
(* Small instances of Quantizer for TLC. *)
EXTENDS Quantizer

Vectors(xs, ys) == [i \in DOMAIN xs |-> [m \in Parts |-> 60 * (IF m = 0 THEN xs[i] ELSE ys[i])]]

\* Equal vectors, which leave clusters empty, vectors on both sides of the
\* origin, as many vectors as centroids, and too few.
SomeInputs ==
    {Vectors(<<0, 0, 1, 3, 4>>, <<1, 1, 1, 1, 2>>),
     Vectors(<<5, -2, 1, 2, 0>>, <<0, 4, -4, 1, 1>>),
     Vectors(<<3, 3, 0, -1, -1>>, <<2, 7, 3, 5, 0>>),
     Vectors(<<0, 1, 2, 6>>, <<2, 0, 0, 2>>),
     Vectors(<<1, 2>>, <<3, 4>>)}

=============================================================================
