--------------------------- MODULE MCConfigReload ---------------------------
(* Model checking of ConfigReload: the first write adds a key and raises a   *)
(* limit, the second does not parse, the third revokes a key.                *)
EXTENDS ConfigReload, TLC

MCRpm == 0 :> ("a" :> 1) @@ 1 :> ("a" :> 2 @@ "b" :> 1) @@ 2 :> ("a" :> 1)
         @@ 3 :> ("b" :> 1)

=============================================================================
