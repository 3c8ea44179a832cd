----------------------------- MODULE HttpImport -----------------------------
(***************************************************************************)
(* The timeout of a request to a provider: feed/http_import.go.            *)
(*                                                                         *)
(* A time.Duration is an int64 that counts nanoseconds. doRequest takes    *)
(* "seconds" as a Duration and multiplies it by time.Second, but its       *)
(* callers hand it time.Second*15 and time.Second*60, so the product is    *)
(* the number of seconds times 10^18, in 64 bits.                          *)
(***************************************************************************)
EXTENDS Integers

(* The 64 bits, in four parts of 16, the lowest first. *)
Base == 65536
TimesTen(x) ==
    LET c1 == 10 * x[1]
        c2 == 10 * x[2] + c1 \div Base
        c3 == 10 * x[3] + c2 \div Base
        c4 == 10 * x[4] + c3 \div Base
    IN  <<c1 % Base, c2 % Base, c3 % Base, c4 % Base>>

TimesPowerOfTen(x, n) ==
    LET product[k \in 0..n] == IF k = 0 THEN x ELSE TimesTen(product[k - 1]) IN product[n]

Negative(x) == 2 * x[4] >= Base

(* http.Client takes a Timeout that is not positive for none at all. *)
Timeout(seconds) == TimesPowerOfTen(<<seconds, 0, 0, 0>>, 18)
TimesOut(seconds) == ~Negative(Timeout(seconds))

VehicleFeedTimesOut == TimesOut(15)
=============================================================================
