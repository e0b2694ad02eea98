------------------------------- MODULE Channel -------------------------------
(***************************************************************************)
(* Channels (src/src/channel.rs): the data of a channel, who may do what   *)
(* on it, and how a MODE change alters it.  Boolean fields of the Rust     *)
(* structs are kept as the set of the ones that are true.  Masks are       *)
(* opaque: the constant function Match says which texts a mask covers (the *)
(* nickname n is the text <<n>>, a full name <<n, user>>), and a MaskSet   *)
(* is the set of its masks; their order is left out.  A channel has a      *)
(* topic or None (its author and time are left out).                       *)
(***************************************************************************)
EXTENDS Integers, FiniteSets, Maps

CONSTANTS Ids,          \* keys of the client slab
          ChanKeys,     \* keys (passwords) of channels, as parsed from a request
          Masks, Match, \* Match[m]: the nicknames and full names mask m covers
          Topics,
          None,         \* Option::None
          Truncate,     \* Truncate[k]: the first keylen bytes of key k, or None if the
                        \* cut falls inside a character
          Trips         \* Trips[m]: the texts on which match_mask panics with mask m

ASSUME KeyAssumption  == Truncate \in [ChanKeys -> ChanKeys \cup {None}] /\ None \notin ChanKeys
ASSUME MatchAssumption == DOMAIN Match = Masks
ASSUME TripsAssumption == DOMAIN Trips = Masks /\ \A m \in Masks : Trips[m] \cap Match[m] = {}
ASSUME LimitAssumption == None \notin Nat

MemberModes == {"founder", "protected", "operator", "halfop", "voice"}

is_at_least_op(m)     == m \cap {"operator", "founder"} # {}
is_at_least_halfop(m) == m \cap {"halfop", "operator", "founder"} # {}

\* The channel modes without a parameter, by their ChannelChange constructors.
Flags == {"InviteOnly", "Moderated", "NoPrivMsgFromOutside", "Secret", "TopicRestricted"}

\* The lists of masks, and the member modes, by the constructors that change them.
Lists == {"ChangeBan", "ChangeException", "ChangeInvitation"}
Ranks == {"ChangeOperator", "ChangeHalfop", "ChangeVoice"}

RankMode(kind) == CASE kind = "ChangeOperator" -> "operator"
                    [] kind = "ChangeHalfop"   -> "halfop"
                    [] kind = "ChangeVoice"    -> "voice"

(***************************************************************************)
(* mode::ChannelChange, as a tuple that starts with the constructor's      *)
(* name.  A list query (GetBans, GetExceptions, GetInvitations), a limit   *)
(* that does not parse and a mode the parser refuses alter nothing: all of *)
(* them are the change NoChange.  Nicknames is the set of names a client   *)
(* may write as a parameter.                                               *)
(***************************************************************************)
NoChange == <<"GetBans">>

ChannelChange(Nicknames) ==
         {NoChange}
    \cup (Flags \X BOOLEAN)
    \cup ({"Key"} \X {TRUE} \X ChanKeys) \cup {<<"Key", FALSE>>}
    \cup ({"UserLimit"} \X (Nat \cup {None}))
    \cup (Lists \X BOOLEAN \X Masks)
    \cup (Ranks \X BOOLEAN \X Nicknames)

HalfopChanges == Lists \cup {"Moderated", "TopicRestricted", "UserLimit", "ChangeVoice"}
OpChanges == {"InviteOnly", "NoPrivMsgFromOutside", "Secret", "Key",
              "ChangeOperator", "ChangeHalfop"}

\* Mutant: every change is open to half-operators.
can_change_halfop(m, change) == change # NoChange => is_at_least_halfop(m)

\* MemberModes::can_change, for one change.
can_change(m, change) ==
    /\ change[1] \in HalfopChanges => is_at_least_halfop(m)
    /\ change[1] \in OpChanges     => is_at_least_op(m)

IsChannel(ch) ==
    /\ ch \in [ members    : {ch.members},
                invites    : SUBSET Ids,
                flags      : SUBSET Flags,
                key        : ChanKeys \cup {None},
                user_limit : Nat \cup {None},
                masks      : [Lists -> SUBSET Masks],
                topic      : Topics \cup {None} ]
    /\ IsMap(ch.members, Ids, SUBSET MemberModes)

\* Channel::new with the flags of default_chan_mode.
NewChannel(default_flags) ==
    [ members |-> EmptyMap, invites |-> {}, flags |-> default_flags, key |-> None,
      user_limit |-> None, masks |-> [l \in Lists |-> {}], topic |-> None ]

\* The first member is an operator; a member is no longer invited.
add_member(ch, id) ==
    [ch EXCEPT !.members = Put(@, id, IF DOMAIN @ = {} THEN {"operator"} ELSE {}),
               !.invites = @ \ {id}]

remove_members(ch, ids) == [ch EXCEPT !.members = Drop(@, ids)]

\* MaskSet::is_match
is_match(ch, list, text) == \E m \in ch.masks[list] : text \in Match[m]

is_banned(ch, text) ==
    /\ is_match(ch, "ChangeBan", text)
    /\ ~is_match(ch, "ChangeException", text)
    /\ ~is_match(ch, "ChangeInvitation", text)

is_invited(ch, id, nick) ==
    \/ "InviteOnly" \notin ch.flags
    \/ id \in ch.invites
    \/ is_match(ch, "ChangeInvitation", <<nick>>)

can_invite(ch, id) ==
    /\ id \in DOMAIN ch.members
    /\ "InviteOnly" \in ch.flags => is_at_least_halfop(ch.members[id])

\* Mutant: off by one at the user limit.
check_join_one_more(ch, id, nick, full_name, key) ==
    /\ id \notin DOMAIN ch.members
    /\ ch.key = key
    /\ ch.user_limit # None => Cardinality(DOMAIN ch.members) <= ch.user_limit
    /\ is_invited(ch, id, nick)
    /\ ~is_banned(ch, <<nick>>) /\ ~is_banned(ch, full_name)

\* StateInner::check_join; a key given to a channel without one is refused too.
check_join(ch, id, nick, full_name, key) ==
    /\ id \notin DOMAIN ch.members
    /\ ch.key = key
    /\ ch.user_limit # None => Cardinality(DOMAIN ch.members) < ch.user_limit
    /\ is_invited(ch, id, nick)
    /\ ~is_banned(ch, <<nick>>) /\ ~is_banned(ch, full_name)

(***************************************************************************)
(* match_mask cuts the text at every byte offset while it looks for a      *)
(* place after a `*`, and panics when an offset is inside a character.     *)
(* MaskSet::is_match stops at the first mask that matches; a list with a   *)
(* mask that matches and one that panics may do either, and surely panics  *)
(* when none matches.  `sure` asks for the latter.                         *)
(***************************************************************************)
is_match_panics(ch, list, text, sure) ==
    /\ \E m \in ch.masks[list] : text \in Trips[m]
    /\ sure => ~is_match(ch, list, text)

\* The exceptions and invitations are looked at only while the lists before let go on.
is_banned_panics(ch, text, sure) ==
    \/ is_match_panics(ch, "ChangeBan", text, sure)
    \/ /\ is_match(ch, "ChangeBan", text)
       /\ \/ is_match_panics(ch, "ChangeException", text, sure)
          \/ /\ ~is_match(ch, "ChangeException", text)
             /\ is_match_panics(ch, "ChangeInvitation", text, sure)

\* The lists are reached only by a client that passes the checks before them.
check_join_panics(ch, id, nick, full_name, key, sure) ==
    /\ id \notin DOMAIN ch.members
    /\ ch.key = key
    /\ ch.user_limit # None => Cardinality(DOMAIN ch.members) < ch.user_limit
    /\ \/ /\ "InviteOnly" \in ch.flags /\ id \notin ch.invites
          /\ is_match_panics(ch, "ChangeInvitation", <<nick>>, sure)
       \/ /\ is_invited(ch, id, nick)
          /\ \/ is_banned_panics(ch, <<nick>>, sure)
             \/ ~is_banned(ch, <<nick>>) /\ is_banned_panics(ch, full_name, sure)

Toggle(S, x, value) == IF value THEN S \cup {x} ELSE S \ {x}

(***************************************************************************)
(* Channel::apply_mode_change.  nick_of gives the nickname of every        *)
(* member.  +k on a channel that has a key (ERR_KEYSET) and a member mode  *)
(* for a nickname that is not on the channel (ERR_USERNOTINCHANNEL) leave  *)
(* the channel as it is.  A change that panics (key_panics) is not one.    *)
(***************************************************************************)
apply_mode_change(ch, change, nick_of) ==
    LET kind == change[1]
    IN  CASE kind \in Flags -> [ch EXCEPT !.flags = Toggle(@, kind, change[2])]
          [] kind \in Lists -> [ch EXCEPT !.masks[kind] = Toggle(@, change[3], change[2])]
          [] kind = "Key" ->
                [ch EXCEPT !.key = IF ~change[2] THEN None
                                   ELSE IF @ = None THEN Truncate[change[3]] ELSE @]
          [] kind = "UserLimit" -> [ch EXCEPT !.user_limit = change[2]]
          [] kind \in Ranks ->
                [ch EXCEPT !.members =
                    [m \in DOMAIN @ |-> IF nick_of[m] = change[3]
                                        THEN Toggle(@[m], RankMode(kind), change[2])
                                        ELSE @[m]]]
          [] OTHER -> ch

\* +k cuts the key at a byte offset, which panics inside a character.
key_panics(ch, change) ==
    change[1] = "Key" /\ change[2] /\ ch.key = None /\ Truncate[change[3]] = None

=============================================================================
