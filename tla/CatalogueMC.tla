---------------------------- MODULE CatalogueMC ----------------------------
(* Values for the constants of Catalogue. *)
EXTENDS Catalogue

CONSTANTS a1, a2

Payload(price, surcharge, reference) ==
  [price |-> price, surcharge |-> surcharge, reference |-> reference]

\* 130 seconds cost 42 and 50 points; 670 seconds 155 and 194, 156 with the
\* decimals of the code.
CatalogueDurations == {130, 670}
CatalogueLines == {7, 80}
CatalogueSubmissions ==
  { Flash :> Payload(45, None, 42),
    Pro :> Payload(50, None, 50),
    (Flash :> Payload(40, None, 42)) @@ (Pro :> Payload(61, 21, 50)) }
CatalogueTiers == {Flash, Pro}
CatalogueLegacy == (Flash :> 40) @@ (Pro :> 48)
CatalogueFamily == (Flash :> 21) @@ (Pro :> 32)
CatalogueMultiplier == <<3, 2>>
CatalogueAdmins == {a1, a2}
AdminSymmetry == Permutations(CatalogueAdmins)
=============================================================================
