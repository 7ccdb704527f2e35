---------------------------- MODULE CommandLine ----------------------------
(***************************************************************************)
(* The commands of gday up to the peer connection: gday/src/main.rs. send  *)
(* asks which files to offer, send and chat create a room and show a code, *)
(* join reads one.                                                         *)
(***************************************************************************)
EXTENDS FileDialog, Base32

CONSTANTS
    Rooms,   \* the pairs of a room id and a peer secret that may be drawn
    Typed    \* the codes that may be typed

ASSUME CommandLineAssumption ==
    /\ Rooms \subseteq U32 \X U32
    /\ Typed \subseteq Seq(Seq(Letters))

VARIABLES
    command,  \* the subcommand
    checked,  \* the program that reads the code has overflow checks
    code,     \* the parts of the code that is shown or was typed
    room,     \* the room id and the peer secret
    state     \* where the program is

vars == <<dialogVars, command, checked, code, room, state>>

\* start: before the room. room: it has the id of the room and the secret, and
\* goes on to meet the peer. failed: it has said why and called exit. no_server: the same, as the server did not answer
\* or refused. panic: it has crashed.
States == {"start", "room", "failed", "no_server", "panic"}

Init ==
    /\ command \in {"send", "chat", "join"}
    /\ IF command = "send" THEN DialogInit ELSE DialogIdle
    /\ checked \in IF command = "join" THEN BOOLEAN ELSE {FALSE}
    /\ code \in IF command = "join" THEN Typed ELSE {<<>>}
    /\ room = <<0, 0>>
    /\ state = "start"

\* send: confirm_send runs.
AskFiles ==
    /\ state = "start"
    /\ ConfirmSend
    /\ UNCHANGED <<command, checked, code, room, state>>

\* It has returned an error, or crashed.
NoFiles ==
    /\ state = "start"
    /\ \/ dialog \in {"cancelled", "refused"} /\ state' = "failed"
       \/ dialog \in {"overflow", "panic"} /\ state' = "panic"
    /\ UNCHANGED <<dialogVars, command, checked, code, room>>

\* start_room: the server gives an id and a secret is drawn; the code is shown.
StartRoom ==
    /\ state = "start"
    /\ command = "chat" \/ dialog = "accepted"
    /\ \E r \in Rooms :
        /\ room' = r
        /\ code' = ToString(<<0, r[1], r[2]>>)
    /\ state' = "room"
    /\ UNCHANGED <<dialogVars, command, checked>>

\* The parts that are no numbers. from_string stops at the first.
Wrong(nums) == {i \in DOMAIN nums : nums[i] < 0}

FirstWrong(nums) ==
    nums[CHOOSE i \in Wrong(nums) : \A j \in Wrong(nums) : i <= j]

\* join_room: the code is read. Its first number is ignored.
JoinRoom ==
    LET nums == FromString(code, checked)
    IN  /\ state = "start" /\ command = "join"
        /\ IF Wrong(nums) # {}
           THEN /\ state' = IF FirstWrong(nums) = Overflow THEN "panic"
                            ELSE "failed"
                /\ UNCHANGED room
           ELSE IF Len(nums) # 3
           THEN state' = "failed" /\ UNCHANGED room
           ELSE state' = "room" /\ room' = <<nums[2], nums[3]>>
        /\ UNCHANGED <<dialogVars, command, checked, code>>

\* connect_to_server, create_room or join_room of ContactSharer fails.
NoServer ==
    /\ \/ state = "start" /\ (command = "chat" \/ dialog = "accepted")
       \/ state = "room" /\ command = "join"
    /\ state' = "no_server"
    /\ UNCHANGED <<dialogVars, command, checked, code, room>>

Next == AskFiles \/ NoFiles \/ StartRoom \/ JoinRoom \/ NoServer

Spec == Init /\ [][Next]_vars

----------------------------------------------------------------------------
TypeOK ==
    /\ command = "send" => DialogTypeOK
    /\ checked \in BOOLEAN
    /\ code \in Seq(Seq(Letters))
    /\ room \in U32 \X U32
    /\ state \in States

\* What may be typed for a part that is shown: I or L for 1.
Reads(part, shown) ==
    /\ Len(part) = Len(shown)
    /\ \A i \in DOMAIN part :
        part[i] = shown[i] \/ (part[i] = One /\ shown[i] = 1)

\* The code that is shown for a room brings the peer to that room with that
\* secret, whatever the numbers are, also if it is typed with an I or L where
\* a 1 was shown: the code is not refused and no other room is joined.
CodeRoundTrip ==
    /\ command = "join" /\ state # "start" /\ Len(code) = 3
    /\ \A i \in 1..3 : \E v \in U32 : Reads(code[i], U32ToStr(v))
    => /\ state \in {"room", "no_server"}
       /\ \A v \in U32 : \A i \in 2..3 :
            Reads(code[i], U32ToStr(v)) => room[i - 1] = v

\* No room is joined but the one whose number was typed, and reading a code
\* does not crash: unless a part has more digits than there are place values
\* in an u32. The place values of the others are then zero in a build without
\* overflow checks, which ignores these digits, and a panic in one with.
TypedOrTooLong ==
    command = "join" =>
        /\ state = "room" =>
            \A i \in 2..3 : \/ room[i - 1] = ValueOf(code[i])
                            \/ ~checked /\ Len(code[i]) > Places
        /\ state = "panic" =>
            checked /\ \E i \in DOMAIN code : Len(code[i]) > Places
============================================================================
