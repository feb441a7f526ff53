----------------------------- MODULE MCStartUp -----------------------------
(* Values for the constants of StartUp.                                    *)
EXTENDS StartUp

MCNumeral == "0" :> 0 @@ "1" :> 1 @@ "2" :> 2 @@ "9" :> 9
=============================================================================
