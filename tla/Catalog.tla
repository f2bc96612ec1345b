-------------------------------- MODULE Catalog --------------------------------
(***************************************************************************)
(* What opening a container promises, without saying how it is read: the   *)
(* list of its files starts empty, every file of the container gets into   *)
(* it, nothing else and nothing twice, and then the call returns.          *)
(* IsoParser and StfsParser implement this specification.                  *)
(***************************************************************************)
EXTENDS Sequences

VARIABLES
  status,                   \* "closed", "reading", "open" or "refused"
  contents,                 \* the files that the container holds
  listed                    \* those listed so far, in the order of listing

catalogVars == <<status, contents, listed>>

CatalogInit == status = "closed" /\ contents = {} /\ listed = <<>>

(* A container that cannot be read at all is refused.                      *)
Start ==
  /\ status # "reading"
  /\ status' \in {"reading", "refused"}
  /\ listed' = <<>>

List(f) ==
  /\ status = "reading"
  /\ f \in contents
  /\ \A i \in DOMAIN listed : listed[i] # f
  /\ listed' = Append(listed, f)
  /\ UNCHANGED <<status, contents>>

Done ==
  /\ status = "reading"
  /\ \A f \in contents : \E i \in DOMAIN listed : listed[i] = f
  /\ status' = "open"
  /\ UNCHANGED <<contents, listed>>

Forget ==
  /\ status # "reading"
  /\ status' = "closed" /\ contents' = {} /\ listed' = <<>>

CatalogNext == Start \/ (\E f \in contents : List(f)) \/ Done \/ Forget

CatalogSafety == CatalogInit /\ [][CatalogNext]_catalogVars

CatalogSpec ==
  /\ CatalogSafety
  /\ WF_catalogVars(Done \/ \E f \in contents : List(f))
===============================================================================
