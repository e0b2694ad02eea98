---------------------------- MODULE Registration ----------------------------
(***************************************************************************)
(* The connection state machine of src/src/client.rs: what a client may    *)
(* send before it is registered, and what brings it closer to registration *)
(***************************************************************************)

ConnectionState ==
    { "ConnectionEstablished", "NickGiven", "UserGiven", "CapGiven",
      "CapNickGiven", "CapUserGiven", "CapNegotiation", "Registered", "Quit" }

\* States in which capability negotiation is open (CAP END is awaited).
Negotiating == { "CapGiven", "CapNickGiven", "CapUserGiven", "CapNegotiation" }

\* The result of `apply` when the request may not be issued.
Rejected == "Rejected"

AfterNick ==
    [ ConnectionEstablished |-> "NickGiven",    NickGiven    |-> "NickGiven",
      UserGiven             |-> "Registered",   CapGiven     |-> "CapNickGiven",
      CapNickGiven          |-> "CapNickGiven", CapUserGiven |-> "CapNegotiation",
      CapNegotiation        |-> "CapNegotiation" ]

\* Mutant: USER ends the first half of the negotiation without a NICK.
AfterUserTooFar ==
    [ ConnectionEstablished |-> "UserGiven",      NickGiven    |-> "Registered",
      CapGiven              |-> "CapNegotiation", CapNickGiven |-> "CapNegotiation" ]

\* USER is accepted once: a second one is rejected.
AfterUser ==
    [ ConnectionEstablished |-> "UserGiven",    NickGiven    |-> "Registered",
      CapGiven              |-> "CapUserGiven", CapNickGiven |-> "CapNegotiation" ]

AfterCapEnd ==
    [ ConnectionEstablished |-> "ConnectionEstablished",
      NickGiven             |-> "NickGiven",    UserGiven    |-> "UserGiven",
      CapGiven              |-> "ConnectionEstablished",
      CapNickGiven          |-> "NickGiven",    CapUserGiven |-> "UserGiven",
      CapNegotiation        |-> "Registered" ]

Lookup(table, s) == IF s \in DOMAIN table THEN table[s] ELSE Rejected

\* Opening the negotiation after NICK or USER forgets that they were given.
AfterCap(s) == IF s \in Negotiating THEN s ELSE "CapGiven"

BeforeRegistration(s, r) ==
    CASE r = "Nick"                           -> Lookup(AfterNick, s)
      [] r = "User"                           -> Lookup(AfterUser, s)
      [] r = "CapEnd"                         -> Lookup(AfterCapEnd, s)
      [] r \in {"CapLs", "CapReq"}            -> AfterCap(s)
      [] r \in {"Authenticate", "Pass", "Ping"} -> s
      [] OTHER                                -> Rejected

\* ConnectionState::apply: the state after request r, or Rejected.
Apply(s, r) ==
    IF s = "Quit" THEN Rejected
    ELSE IF r = "Quit" THEN "Quit"
    ELSE IF s = "Registered" THEN IF r \in {"Pass", "User"} THEN Rejected ELSE s
    ELSE BeforeRegistration(s, r)

=============================================================================
