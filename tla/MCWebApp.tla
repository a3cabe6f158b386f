------------------------------- MODULE MCWebApp -------------------------------
(* The values for TLC that a .cfg cannot write down. *)
EXTENDS WebApp, TLC

\* PLAN_DEFS of the page, PLAN_PRICES of the server: free, pro, enterprise.
ShownPrices == 0 :> 0 @@ 1 :> 299 @@ 2 :> 999
ServerPrices == 0 :> 0 @@ 1 :> 99 @@ 2 :> 499

SomePages == "all" :> 2 @@ "errors" :> 1

SomeHits == "ops" :> {"agent", "conversation"} @@ "law" :> {}
===============================================================================
