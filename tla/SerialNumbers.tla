--------------------------- MODULE SerialNumbers ---------------------------
(***************************************************************************)
(* The wrap-aware serial numbers of telegrams (src/telegram.h and          *)
(* src/telegram.c), shared by the codec, the tracker and the console.      *)
(***************************************************************************)
EXTENDS Integers

CONSTANT TG_SN_MAX      \* serials are 1 .. TG_SN_MAX

ASSUME SerialAssumption == TG_SN_MAX \in Nat /\ TG_SN_MAX > 1

TG_SN_MIN   == 1
TG_SN_RANGE == TG_SN_MAX - TG_SN_MIN + 1
Serials     == TG_SN_MIN .. TG_SN_MAX

tg_sn_valid(sn) == sn >= TG_SN_MIN /\ sn <= TG_SN_MAX

tg_sn_next(sn) ==
    IF ~tg_sn_valid(sn) \/ sn = TG_SN_MAX THEN TG_SN_MIN ELSE sn + 1

tg_sn_prev(sn) ==
    IF ~tg_sn_valid(sn) \/ sn = TG_SN_MIN THEN TG_SN_MAX ELSE sn - 1

\* The remainder of C, which has the sign of the dividend.
CRemainder(a, b) == IF a >= 0 THEN a % b ELSE -((-a) % b)

tg_sn_distance(from, to) ==
    LET d == CRemainder(to - from, TG_SN_RANGE)
    IN  IF d < 0 THEN d + TG_SN_RANGE ELSE d

=============================================================================
