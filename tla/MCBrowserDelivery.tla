-------------------------- MODULE MCBrowserDelivery --------------------------
(* Instances of BrowserDelivery for TLC. *)
EXTENDS BrowserDelivery, TLC

\* Jobs differ in nothing but their ids, and so do requests.
Interchangeable == Permutations(Jobs) \union Permutations(Requests)
=============================================================================
