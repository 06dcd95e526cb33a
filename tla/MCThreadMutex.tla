--------------------------- MODULE MCThreadMutex ---------------------------
(* A TLC instance of ThreadMutex.                                           *)
EXTENDS ThreadMutex, TLC

CONSTANTS a, b, c, d, e, f, k1, k2

\* Two functions each take the other's key, and one of them its own key again; two more
\* calls are in the line of the first key.
MCKeyOf == (a :> k1) @@ (b :> k2) @@ (c :> k2) @@ (d :> k1) @@ (e :> k1) @@ (f :> k1)
MCWithin == (a :> NoCall) @@ (b :> a) @@ (c :> NoCall) @@ (d :> c) @@ (e :> b) @@ (f :> NoCall)
=============================================================================
