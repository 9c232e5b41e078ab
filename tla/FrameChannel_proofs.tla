------------------------- MODULE FrameChannel_proofs -------------------------
(***************************************************************************)
(* What the channels and the store promise together, whatever the tasks    *)
(* around them do: a frame that is stored is never there before the        *)
(* version and the checksum kind it is to be read with.                    *)
(*                                                                         *)
(* The store's three critical sections are taken in the order version,     *)
(* checksum, store on the first frame of a channel, and only the last one  *)
(* later.  The inductive invariant follows a channel through them.         *)
(***************************************************************************)
EXTENDS FrameChannel, TLAPS

Typed ==
    /\ line \in Lines
    /\ channel \in [Channels -> [locked : BOOLEAN,
                                 step : {"idle", "version", "checksum", "store"},
                                 id : FrameIds \cup {0},
                                 payload : Payload \cup {NoFrame}]]
    /\ mMessage \in [FrameIds -> Payload \cup {NoFrame}]

\* No one ever sets anything but the version and kind of this heat pump.
OfLine ==
    /\ mProtocolVersion \in {"UNKNOWN", line.version}
    /\ mChecksumType \in {"UNKNOWN", line.checksum}

\* A channel on its way to the store has a frame in hand.
InHand ==
    \A c \in Channels :
        channel[c].step # "idle" => channel[c].id \in FrameIds /\ channel[c].payload \in Payload

\* A channel leaves what it has set behind it.
SetVersionBehind(c) == \/ channel[c].step \in {"checksum", "store"}
                       \/ channel[c].locked /\ channel[c].step = "idle"

SetChecksumBehind(c) == \/ channel[c].step = "store"
                        \/ channel[c].locked /\ channel[c].step = "idle"

ChannelsKnow ==
    \A c \in Channels :
        /\ SetVersionBehind(c) => mProtocolVersion = line.version
        /\ SetChecksumBehind(c) => mChecksumType = line.checksum

\* A frame in the store came through such a channel.
StoredKnow ==
    \A id \in FrameIds : mMessage[id] # NoFrame =>
        mProtocolVersion = line.version /\ mChecksumType = line.checksum

ChannelInv == Typed /\ OfLine /\ InHand /\ ChannelsKnow /\ StoredKnow

storeVars == <<line, channel, mMessage, mProtocolVersion, mChecksumType>>

-----------------------------------------------------------------------------

\* ChannelInv is about storeVars only.
LEMMA ChannelInvStutter == ChannelInv /\ UNCHANGED storeVars => ChannelInv'
  BY DEF ChannelInv, Typed, OfLine, InHand, ChannelsKnow, SetVersionBehind,
         SetChecksumBehind, StoredKnow, storeVars

\* At the start nothing is stored and no channel is locked.
LEMMA ChannelInvStart ==
    ASSUME line \in Lines,
           mMessage = [id \in FrameIds |-> NoFrame],
           mProtocolVersion = "UNKNOWN", mChecksumType = "UNKNOWN",
           channel = [c \in Channels |-> AtRest(FALSE)]
    PROVE  ChannelInv
  <1>1. Typed
    BY DEF Typed, AtRest
  <1>2. QED
    BY <1>1 DEF ChannelInv, OfLine, InHand, ChannelsKnow, SetVersionBehind,
                SetChecksumBehind, StoredKnow, AtRest

\* A channel takes a frame in hand: a locked one has set version and kind before.
LEMMA ChannelInvAccept ==
    ASSUME ChannelInv, NEW c \in Channels, NEW id \in FrameIds, NEW payload \in Payload,
           Accept(c, id, payload),
           UNCHANGED <<line, mMessage, mProtocolVersion, mChecksumType>>
    PROVE  ChannelInv'
  <1>1. channel[c].step = "idle"
    BY DEF Accept, Idle
  <1>2. Typed'
    BY DEF ChannelInv, Typed, Accept
  <1>3. InHand'
    BY DEF ChannelInv, Typed, InHand, Accept
  <1>4. ChannelsKnow'
    <2>1. SUFFICES ASSUME NEW d \in Channels
                   PROVE  /\ SetVersionBehind(d)' => mProtocolVersion' = line'.version
                          /\ SetChecksumBehind(d)' => mChecksumType' = line'.checksum
      BY DEF ChannelsKnow
    <2>2. CASE d # c
      BY <2>2 DEF ChannelInv, Typed, ChannelsKnow, SetVersionBehind, SetChecksumBehind, Accept
    <2>3. CASE d = c
      BY <1>1, <2>3 DEF ChannelInv, Typed, ChannelsKnow, SetVersionBehind,
                        SetChecksumBehind, Accept
    <2>4. QED
      BY <2>2, <2>3
  <1>5. QED
    BY <1>2, <1>3, <1>4 DEF ChannelInv, OfLine, StoredKnow

\* One critical section of a channel.
LEMMA ChannelInvStep ==
    ASSUME ChannelInv, NEW c \in Channels, ChannelStep(c)
    PROVE  ChannelInv'
  <1>0. UNCHANGED line
    BY DEF ChannelStep
  <1>1. CASE At(c, "version") /\ SetVersion(line.version)
    <2>1. channel' = [channel EXCEPT ![c].step = "checksum"]
      BY <1>1 DEF At, NextStep
    <2>2. channel[c].step = "version"
      BY <1>1 DEF At
    <2>3. UNCHANGED <<mChecksumType, mMessage>> /\ mProtocolVersion' = line'.version
      BY <1>0, <1>1 DEF SetVersion
    <2>4. Typed' /\ InHand'
      BY <1>0, <2>1, <2>2, <2>3 DEF ChannelInv, Typed, InHand
    <2>5. ChannelsKnow'
      BY <1>0, <2>1, <2>2, <2>3 DEF ChannelInv, Typed, ChannelsKnow, SetVersionBehind,
                                    SetChecksumBehind
    <2>6. QED
      BY <1>0, <2>3, <2>4, <2>5 DEF ChannelInv, OfLine, StoredKnow
  <1>2. CASE At(c, "checksum") /\ SetChecksumType(line.checksum)
    <2>1. channel' = [channel EXCEPT ![c].step = "store"]
      BY <1>2 DEF At, NextStep
    <2>2. channel[c].step = "checksum"
      BY <1>2 DEF At
    <2>3. UNCHANGED <<mProtocolVersion, mMessage>> /\ mChecksumType' = line'.checksum
      BY <1>0, <1>2 DEF SetChecksumType
    <2>4. Typed' /\ InHand'
      BY <1>0, <2>1, <2>2, <2>3 DEF ChannelInv, Typed, InHand
    <2>5. ChannelsKnow'
      BY <1>0, <2>1, <2>2, <2>3 DEF ChannelInv, Typed, ChannelsKnow, SetVersionBehind,
                                    SetChecksumBehind
    <2>6. QED
      BY <1>0, <2>3, <2>4, <2>5 DEF ChannelInv, OfLine, StoredKnow
  <1>3. CASE At(c, "store") /\ StoreFrame(channel[c].id, channel[c].payload)
    <2>1. channel' = [channel EXCEPT ![c] = AtRest(TRUE)]
      BY <1>3 DEF At, NextStep
    <2>2. channel[c].step = "store"
      BY <1>3 DEF At
    <2>3. /\ UNCHANGED <<mProtocolVersion, mChecksumType>>
          /\ mMessage' = [mMessage EXCEPT ![channel[c].id] = channel[c].payload]
      BY <1>3 DEF StoreFrame
    <2>4. channel[c].id \in FrameIds /\ channel[c].payload \in Payload
      BY <2>2 DEF ChannelInv, InHand
    <2>5. Typed' /\ InHand'
      BY <1>0, <2>1, <2>3, <2>4 DEF ChannelInv, Typed, InHand, AtRest
    <2>6. ChannelsKnow'
      BY <1>0, <2>1, <2>2, <2>3 DEF ChannelInv, Typed, ChannelsKnow, SetVersionBehind,
                                    SetChecksumBehind, AtRest
    <2>7. StoredKnow'
      <3>1. mProtocolVersion = line.version /\ mChecksumType = line.checksum
        BY <2>2 DEF ChannelInv, ChannelsKnow, SetVersionBehind, SetChecksumBehind
      <3>2. QED
        BY <1>0, <2>3, <3>1 DEF StoredKnow
    <2>8. QED
      BY <1>0, <2>3, <2>5, <2>6, <2>7 DEF ChannelInv, OfLine
  <1>4. QED
    BY <1>1, <1>2, <1>3 DEF ChannelStep

-----------------------------------------------------------------------------

\* What copyFrame delivers is what is stored: the version is known by then.
LEMMA CopyIsStored ==
    ASSUME ChannelInv, NEW id \in FrameIds
    PROVE  CopyFrame(id).payload = mMessage[id]
  <1>1. mMessage[id] # NoFrame => mProtocolVersion # "UNKNOWN"
    BY LinesAssumption DEF ChannelInv, Typed, StoredKnow, Protocols
  <1>2. QED
    BY <1>1 DEF CopyFrame

\* The store and the channels stay in their types, apart from the notifications.
LEMMA ChannelInvTypes ==
    ASSUME ChannelInv
    PROVE  /\ ChannelTypeOK
           /\ mProtocolVersion \in ProtocolVersion /\ mChecksumType \in ProtocolChecksum
           /\ mMessage \in [FrameIds -> Payload \cup {NoFrame}]
  <1>1. line.version \in Protocols /\ line.checksum \in ProtocolChecksum
    BY LinesAssumption DEF ChannelInv, Typed
  <1>2. /\ "UNKNOWN" \in ProtocolVersion /\ Protocols \subseteq ProtocolVersion
        /\ "UNKNOWN" \in ProtocolChecksum
    BY DEF ProtocolVersion, Protocols, ProtocolChecksum
  <1>3. QED
    BY <1>1, <1>2 DEF ChannelInv, Typed, OfLine, ChannelTypeOK

\* Only frames are notified, also by a channel that stores one.
NotificationsTyped == mNotify \in BOOLEAN /\ notified \subseteq FrameIds

LEMMA NotificationsTypedStep ==
    ASSUME ChannelInv, NotificationsTyped, NEW c \in Channels, ChannelStep(c)
    PROVE  NotificationsTyped'
  <1>1. CASE UNCHANGED <<mNotify, notified>>
    BY <1>1 DEF NotificationsTyped
  <1>2. CASE At(c, "store") /\ StoreFrame(channel[c].id, channel[c].payload)
    <2>1. channel[c].id \in FrameIds
      BY <1>2 DEF At, ChannelInv, InHand
    <2>2. QED
      BY <1>2, <2>1 DEF StoreFrame, NotificationsTyped
  <1>3. QED
    BY <1>1, <1>2 DEF ChannelStep, SetVersion, SetChecksumType

=============================================================================
