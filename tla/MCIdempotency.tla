--------------------------- MODULE MCIdempotency ---------------------------
(* Idempotency for TLC: three requests with one key, of which one has another *)
(* body, and a request with another key under the same advisory lock.         *)
EXTENDS Idempotency, TLC

CONSTANTS r1, r2, r3, r4, k1, k2, b1, b2, h

MCKeyOf  == r1 :> k1 @@ r2 :> k1 @@ r3 :> k1 @@ r4 :> k2
MCBodyOf == r1 :> b1 @@ r2 :> b1 @@ r3 :> b2 @@ r4 :> b1
MCLockOf == k1 :> h @@ k2 :> h
=============================================================================
