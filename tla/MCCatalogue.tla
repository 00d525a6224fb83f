---------------------------- MODULE MCCatalogue ----------------------------
(***************************************************************************)
(* Two processes of releases that give a provider different ids, over      *)
(* tables that are empty, hold a provider that was renamed, or one under   *)
(* the id of the older release; two files of one name.                     *)
(***************************************************************************)
EXTENDS Catalogue, TLC

CONSTANTS p1, p2

Symmetry == Permutations(Files) \cup Permutations(Keys)

Sees == Qwen("optional", "responses", TRUE)

MCProviderSeed == (p1 :> {<<1, "openai">>, <<2, "alibaba">>})
                    @@ (p2 :> {<<1, "openai">>, <<3, "alibaba">>})
MCModelSeed == (p1 :> {Sees, Model("claude", "active")})
                 @@ (p2 :> {Sees, Model("deepseek", "guest")})
MCOldProviders == {{}, {<<1, "legacy">>}, {<<3, "alibaba">>}}

(* The image models, which no chat here has, on every number of images. *)
ASSUME AttachedImagesAreSent
=============================================================================
