--------------------------- MODULE MCComponents -----------------------------
(***************************************************************************)
(* Components that share no state with each other, checked for safety in   *)
(* one run: which of them a behaviour is about is chosen at its start, and *)
(* the others stay as they were initialised.                               *)
(***************************************************************************)
EXTENDS LeaseRegistry, Presence, InputRelay, Billing, Quality, Provisioning, MediaClock,
        LeaseService, TLC

CONSTANTS
  w1, w2,     \* the workers of the registry
  p1, p2,     \* two calls, messages, outputs or requests
  o1, o2      \* provisioning: operations

VARIABLE part

-----------------------------------------------------------------------------
(* What the constants stand for                                            *)

\* Each call of the registry runs in a worker of its own.
TwoHomes == [c \in Calls |-> IF c = p1 THEN w2 ELSE w1]

StreamOf(state, instance) == [state |-> state, instance |-> instance]
PresenceOf(online, ts, desktop, inv, shows) ==
  [online |-> online, ts |-> ts, desktop |-> desktop, inv |-> inv, stream |-> shows]

SomePresences == {PresenceOf(TRUE, 1, TRUE, FALSE, StreamOf("none", "none")),
                  PresenceOf(TRUE, 2, FALSE, TRUE, StreamOf("running", "i1")),
                  PresenceOf(FALSE, 1, FALSE, FALSE, StreamOf("none", "none"))}
SomeEvents == {StreamOf("stopped", "i1"), StreamOf("running", "none")}

PriceOf(each, api, evt, res) == [device |-> each, api |-> api, evt |-> evt, res |-> res]
OnePrice == {PriceOf(3, 2, 1, 2)}
UsualPrice == PriceOf(4, 1, 2, 1)

PayloadOf(t, m, s, d) == [tenant |-> t, terminal |-> m, sn |-> s, device |-> d]
SomePayloads == {PayloadOf(1, 1, "a", 0), PayloadOf(1, 2, "b", 0), PayloadOf(2, 1, "b", 1)}
OneBulk == {[device |-> 1, sn |-> "b", tenant |-> 2]}
ServedAtMost == [provision |-> 2, bulk |-> 1, key |-> 1, reserve |-> 2]

SessionOf(user, session, role) == [user |-> user, session |-> session, role |-> role]

SomeSessions == {SessionOf("u", "s1", "user"), SessionOf("v", "s2", "viewer")}

-----------------------------------------------------------------------------
partVars == <<part, vars, presenceVars, relayVars, serviceVars,
              billingVars, qualityVars, provisionVars, clockVars>>

PartInit ==
  /\ part \in {"registry", "presence", "relay", "service", "billing",
               "quality", "provisioning", "clock"}
  /\ Init /\ PresenceInit /\ BillingInit
  /\ ProvisionInit /\ ClockInit
  \* What these begin with differs only in a behaviour that is about them.
  /\ RelayInit /\ (part # "relay" => mode = "none")
  /\ ServiceInit /\ (part # "service" => streaming = {})
  /\ QualityInit /\ (part # "quality" => source = "desktop")

PartNext ==
  /\ UNCHANGED part
  /\ \/ /\ part = "registry" /\ Next
        /\ UNCHANGED <<presenceVars, relayVars, serviceVars,
                     billingVars, qualityVars, provisionVars, clockVars>>
     \/ /\ part = "presence" /\ PresenceNext
        /\ UNCHANGED <<vars, relayVars, serviceVars, billingVars,
                     qualityVars, provisionVars, clockVars>>
     \/ /\ part = "relay" /\ RelayNext
        /\ UNCHANGED <<vars, presenceVars, serviceVars, billingVars,
                     qualityVars, provisionVars, clockVars>>
     \/ /\ part = "service" /\ ServiceNext
        /\ UNCHANGED <<vars, presenceVars, relayVars, billingVars,
                     qualityVars, provisionVars, clockVars>>
     \/ /\ part = "billing" /\ BillingNext
        /\ UNCHANGED <<vars, presenceVars, relayVars, serviceVars,
                     qualityVars, provisionVars, clockVars>>
     \/ /\ part = "quality" /\ QualityNext
        /\ UNCHANGED <<vars, presenceVars, relayVars, serviceVars,
                     billingVars, provisionVars, clockVars>>
     \/ /\ part = "provisioning" /\ ProvisionNext
        /\ UNCHANGED <<vars, presenceVars, relayVars, serviceVars,
                     billingVars, qualityVars, clockVars>>
     \/ /\ part = "clock" /\ ClockNext
        /\ UNCHANGED <<vars, presenceVars, relayVars, serviceVars,
                     billingVars, qualityVars, provisionVars>>

PartSpec == PartInit /\ [][PartNext]_partVars

\* A call of the registry changes places together with its worker.
Interchangeable == {p1 :> p2 @@ p2 :> p1 @@ w1 :> w2 @@ w2 :> w1}
=============================================================================
