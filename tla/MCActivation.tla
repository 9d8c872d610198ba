----------------------------- MODULE MCActivation -----------------------------
(***************************************************************************)
(* A small instance of Activation: one classic and one smart account, an   *)
(* open and a regulated asset, and the ways to open the page.              *)
(***************************************************************************)
EXTENDS Activation

Req(w, a, callback, complete, router, verify) ==
  [signer |-> w, asset |-> a, callback |-> callback, complete |-> complete,
   router |-> router, verify |-> verify]

Link(kind, a, w, q, ws, bs) ==
  [kind |-> kind, asset |-> a, address |-> w, request |-> q, wallets |-> ws, waiting |-> bs]

MCNone == Req(Nobody, Nothing, FALSE, TRUE, FALSE, "unsigned")

\* Bare, with an asset, with an address to preview, and with requests: one of
\* the router's with a callback, a sponsored one without.
MCLinks ==
  {Link("plain", Nothing, Nobody, MCNone, {"g"}, {"reg"}),
   Link("plain", "reg", Nobody, MCNone, {"g", "c"}, {}),
   Link("address", "reg", "g", MCNone, {"h"}, {"open"}),
   Link("bad", Nothing, Nobody, MCNone, {"g"}, {}),
   Link("sep7", "reg", Nobody, Req("g", "reg", TRUE, TRUE, TRUE, "unsigned"), {"g", "h"}, {}),
   Link("sep7", "reg", Nobody, Req("g", "reg", FALSE, TRUE, FALSE, "checking"), {"g"}, {}),
   Link("sep7", "reg", Nobody, Req("g", "reg", FALSE, FALSE, FALSE, "unsigned"), {"g"}, {})}

\* A preview of an authorized account with a balance of the asset waiting.
MCPreview == {Link("address", "reg", "g", MCNone, {"h"}, {"reg"})}

\* A smart account that looks at both assets.
MCSmart == {Link("plain", Nothing, Nobody, MCNone, {"c"}, {})}
===============================================================================
