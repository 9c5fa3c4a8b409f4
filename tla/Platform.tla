------------------------------ MODULE Platform ------------------------------
(***************************************************************************)
(* The components of the API whose state is their own, each in a module of *)
(* its own, checked together. They share no variable, so a step of one     *)
(* neither enables nor disables a step of another, and a property here     *)
(* speaks of one component's variables: it holds of their interleaving     *)
(* when it holds of each component alone. part names the component whose   *)
(* steps a behaviour takes.                                                *)
(***************************************************************************)
EXTENDS Credentials, RateLimit, Catalogue, Appearance, Desk, Verification, Moderation,
        Reviews, Live, Location, Rooms, Search

VARIABLE part
platformVars == <<part, credVars, rateVars, catVars, cfgVars, deskVars, verVars,
                  modVars, reviewVars, liveVars, locVars, roomVars, searchVars>>

Parts == {"credentials", "rates", "catalogue", "appearance", "desk", "verification",
          "moderation", "reviews", "live", "location", "rooms", "search"}

\* What several initial states tell apart is left to the component that moves.
PlatformInit ==
  /\ part \in Parts
  /\ CredInit /\ (part # "credentials" => member.status = "NONE")
  /\ RateInit /\ CatInit /\ CfgInit /\ DeskInit
  /\ VerInit /\ (part # "verification" => badge = "NONE")
  /\ ModInit /\ ReviewInit
  /\ LiveInit /\ (part # "live" => patron)
  /\ LocInit /\ RoomInit
  /\ SearchInit /\ (part # "search" => discovery.match = "either" /\ activeMembers = {"ann"} /\ rows["p2"].free)

\* The other components stand still.
Alone(p) ==
  /\ part = p /\ UNCHANGED part
  /\ p # "credentials" => UNCHANGED credVars
  /\ p # "rates" => UNCHANGED rateVars
  /\ p # "catalogue" => UNCHANGED catVars
  /\ p # "appearance" => UNCHANGED cfgVars
  /\ p # "desk" => UNCHANGED deskVars
  /\ p # "verification" => UNCHANGED verVars
  /\ p # "moderation" => UNCHANGED modVars
  /\ p # "reviews" => UNCHANGED reviewVars
  /\ p # "live" => UNCHANGED liveVars
  /\ p # "location" => UNCHANGED locVars
  /\ p # "rooms" => UNCHANGED roomVars
  /\ p # "search" => UNCHANGED searchVars

PlatformNext ==
  \/ Alone("credentials") /\ CredNext
  \/ Alone("rates") /\ RateNext
  \/ Alone("catalogue") /\ CatNext
  \/ Alone("appearance") /\ CfgNext
  \/ Alone("desk") /\ DeskNext
  \/ Alone("verification") /\ VerNext
  \/ Alone("moderation") /\ ModNext
  \/ Alone("reviews") /\ ReviewNext
  \/ Alone("live") /\ LiveNext
  \/ Alone("location") /\ LocNext
  \/ Alone("rooms") /\ RoomNext
  \/ Alone("search") /\ SearchNext
PlatformSpec == PlatformInit /\ [][PlatformNext]_platformVars

(* Every variable of every component keeps its type. *)
PlatformTypeOK ==
  /\ part \in Parts
  /\ CredTypeOK /\ RateTypeOK /\ CatTypeOK /\ CfgTypeOK /\ DeskTypeOK
  /\ VerTypeOK /\ ModTypeOK /\ ReviewTypeOK /\ LiveTypeOK /\ LocTypeOK
  /\ RoomTypeOK /\ SearchTypeOK
=============================================================================
