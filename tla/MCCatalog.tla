----------------------------- MODULE MCCatalog -----------------------------
(***************************************************************************)
(* An instance of Catalog: items a and b of the server, m and n made up by *)
(* the browser, SKUs s and t, one motorcycle model.                        *)
(***************************************************************************)
EXTENDS Catalog

CONSTANTS a, b, m, n, s, t, nmax
=============================================================================
