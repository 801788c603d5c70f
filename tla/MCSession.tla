----------------------------- MODULE MCSession -----------------------------
(***************************************************************************)
(* Instances of Session: the calls of two tabs of one browser.             *)
(***************************************************************************)
EXTENDS Session, TLC

CONSTANTS t1, t2, c1, c2

\* Two concurrent calls of one tab, which therefore lead and queue ...
OneTab == c1 :> t1 @@ c2 :> t1
\* ... and two tabs that refresh at the same time.
TwoTabs == c1 :> t1 @@ c2 :> t2
=============================================================================
