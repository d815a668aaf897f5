------------------------------ MODULE MCWatcher ------------------------------
(* Watcher with two watchers on one directory and two files of one name.   *)
EXTENDS Watcher, TLC
CONSTANTS w1, w2, f1, f2
MCWatchers == <<w1, w2>>
MCArrivals == <<f1, f2>>
MCNames == (f1 :> "a") @@ (f2 :> "a")
=============================================================================
