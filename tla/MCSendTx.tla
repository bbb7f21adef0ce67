------------------------------ MODULE MCSendTx ------------------------------
(* TLC instance of SendTx: three sends, two of them in one channel and      *)
(* naming the same upload.                                                  *)
EXTENDS SendTx, TLC

CONSTANTS t1, t2, t3, c1, c2, d1

MCChannelOf == (t1 :> c1) @@ (t2 :> c1) @@ (t3 :> c2)
MCMediaIDs  == (t1 :> <<d1>>) @@ (t2 :> <<d1>>) @@ (t3 :> <<>>)
MCUploads   == (t1 :> {d1}) @@ (t2 :> {d1}) @@ (t3 :> {})
=============================================================================
