------------------------------ MODULE Geometry ------------------------------
(***************************************************************************)
(* Integer arithmetic shared by the simulator and the metrics.             *)
(***************************************************************************)
EXTENDS Integers

Least(a, b) == IF a <= b THEN a ELSE b
Most(a, b) == IF a >= b THEN a ELSE b

\* Division in Go truncates toward zero.
Quot(a, b) == IF a >= 0 THEN a \div b ELSE -((-a) \div b)

\* geometry.Contact: the relative displacement of the rear edges from start to
\* end passes through an overlap; touching edges count.
Contact(start, end, vehicle, obstacle) ==
    Least(start, end) <= vehicle /\ Most(start, end) >= -obstacle
=============================================================================
