--------------------------- MODULE StreamerProofs ---------------------------
(***************************************************************************)
(* Proofs about MjpegStreamer, for every number of pictures, with and      *)
(* without clients that stall, and for every set of calls that may fail.   *)
(* IInv is the inductive invariant: where the server thread is says what   *)
(* it has open (Sockets, Clients), and a picture in the buffer that is     *)
(* announced is newer than the copy, a copy about to be sent newer than    *)
(* what was sent before (Fresh).                                           *)
(***************************************************************************)
EXTENDS MjpegStreamer, TLAPS

(* The server thread is past listen and has not closed the socket.         *)
Listening == {"loop", "accept", "close", "inner", "test", "parking", "parked",
              "take", "send", "closeclient"}

(* It has a client, from accept to close.                                  *)
Serving == {"inner", "test", "parking", "parked", "take", "send",
            "closeclient"}

Sockets ==
  /\ server = "socket" => sock = "none"
  /\ server \in {"bind", "listen"} => sock = "open"
  /\ server \in Listening => sock \in {"listening", "shut"}
  /\ server = "done" => sock \in {"none", "closed"}

Clients == client # "none" => server \in Serving

Fresh ==
  /\ new_frame_ => jpeg_buf_ > jpeg_copy
  /\ server = "send" => jpeg_copy > received

IInv == TypeOK /\ Sockets /\ Clients /\ Fresh
-----------------------------------------------------------------------------
USE DEF Step, Listening, Serving

LEMMA Starts == Init => IInv
<1> SUFFICES ASSUME Init PROVE IInv OBVIOUS
<1>1. /\ running_ \in BOOLEAN /\ server_fd_ \in BOOLEAN
      /\ new_frame_ \in BOOLEAN /\ pending \in BOOLEAN
  BY Zenon DEF Init
<1>2. TypeOK BY <1>1, StreamerAssumption DEF Init, TypeOK
<1> QED BY <1>2, Zenon DEF Init, IInv, Sockets, Clients, Fresh

(* Setting up: a call that fails closes what was opened before it.         *)
LEMMA SettingUp ==
  ASSUME IInv, Socket \/ Bind \/ Listen
  PROVE  IInv'
<1>1. CASE Socket
  BY <1>1 DEF Socket, IInv, TypeOK, Sockets, Clients, Fresh
<1>2. CASE Bind
  BY <1>2 DEF Bind, IInv, TypeOK, Sockets, Clients, Fresh
<1>3. CASE Listen
  BY <1>3 DEF Listen, IInv, TypeOK, Sockets, Clients, Fresh
<1> QED BY <1>1, <1>2, <1>3

(* Between clients.                                                        *)
LEMMA Accepting ==
  ASSUME IInv, Loop \/ Accept \/ AcceptInterrupted \/ AcceptFail \/ Close
  PROVE  IInv'
<1>1. CASE Loop
  BY <1>1 DEF Loop, IInv, TypeOK, Sockets, Clients, Fresh
<1>2. CASE Accept
  BY <1>2 DEF Accept, IInv, TypeOK, Sockets, Clients, Fresh
<1>3. CASE AcceptInterrupted
  BY <1>3 DEF AcceptInterrupted, IInv, TypeOK, Sockets, Clients, Fresh
<1>4. CASE AcceptFail
  BY <1>4 DEF AcceptFail, IInv, TypeOK, Sockets, Clients, Fresh
<1>5. CASE Close
  BY <1>5 DEF Close, IInv, TypeOK, Sockets, Clients, Fresh
<1> QED BY <1>1, <1>2, <1>3, <1>4, <1>5

(* With a client.  The picture taken was announced, so it is newer than    *)
(* the last one taken, which is at least as new as the last one sent.      *)
LEMMA ServingOne ==
  ASSUME IInv, Inner \/ Test \/ Park \/ Timeout \/ Take \/ Send \/ CloseClient
  PROVE  IInv'
<1>1. CASE Inner
  BY <1>1 DEF Inner, IInv, TypeOK, Sockets, Clients, Fresh
<1>2. CASE Test
  BY <1>2 DEF Test, IInv, TypeOK, Sockets, Clients, Fresh
<1>3. CASE Park
  BY <1>3 DEF Park, IInv, TypeOK, Sockets, Clients, Fresh
<1>4. CASE Timeout
  BY <1>4 DEF Timeout, IInv, TypeOK, Sockets, Clients, Fresh
<1>5. CASE Take
  <2>1. CASE ~ running_ \/ ~ new_frame_
    BY <1>5, <2>1 DEF Take, IInv, TypeOK, Sockets, Clients, Fresh
  <2>2. CASE running_ /\ new_frame_
    <3>1. /\ server = "take" /\ server' = "send"
          /\ jpeg_copy' = jpeg_buf_
          /\ ~ new_frame_' /\ new_frame_' \in BOOLEAN
          /\ UNCHANGED <<main, running_, server_fd_, sock, jpeg_buf_, client,
                         pending, received>>
      BY <1>5, <2>2 DEF Take
    <3>2. jpeg_copy' > received' BY <2>2, <3>1, StreamerAssumption DEF IInv, TypeOK, Fresh
    <3>3. TypeOK'
      BY <3>1, <3>2, StreamerAssumption DEF IInv, TypeOK
    <3> QED BY <3>1, <3>2, <3>3 DEF IInv, Sockets, Clients, Fresh
  <2> QED BY <2>1, <2>2
<1>6. CASE Send
  BY <1>6, StreamerAssumption DEF Send, IInv, TypeOK, Sockets, Clients, Fresh
<1>7. CASE CloseClient
  BY <1>7 DEF CloseClient, IInv, TypeOK, Sockets, Clients, Fresh
<1> QED BY <1>1, <1>2, <1>3, <1>4, <1>5, <1>6, <1>7

(* A picture pushed is newer than any copy.                                *)
LEMMA Pushing == ASSUME IInv, push_frame PROVE IInv'
<1>1. jpeg_buf_' > jpeg_copy' /\ jpeg_buf_' \in 0 .. MaxFrames
  BY StreamerAssumption DEF push_frame, IInv, TypeOK
<1> QED
  BY <1>1, StreamerAssumption
     DEF push_frame, Notify, IInv, TypeOK, Sockets, Clients, Fresh

(* The end, as main sees it: a notification can only take a parked server  *)
(* back to its predicate.                                                  *)
LEMMA Stopping ==
  ASSUME IInv, StopClear \/ Stop
  PROVE  IInv'
<1>1. CASE StopClear
  BY <1>1 DEF StopClear, IInv, TypeOK, Sockets, Clients, Fresh
<1>2. CASE StopNotify
  BY <1>2 DEF StopNotify, Notify, IInv, TypeOK, Sockets, Clients, Fresh
<1>3. CASE StopShutdown
  BY <1>3 DEF StopShutdown, IInv, TypeOK, Sockets, Clients, Fresh
<1>4. CASE StopJoin
  BY <1>4 DEF StopJoin, IInv, TypeOK, Sockets, Clients, Fresh
<1> QED BY <1>1, <1>2, <1>3, <1>4 DEF Stop

(* The client and the network: a connection is closed by the server only.  *)
LEMMA ClientsDoing ==
  ASSUME IInv, Client
  PROVE  IInv'
<1>1. CASE Connect
  BY <1>1 DEF Connect, IInv, TypeOK, Sockets, Clients, Fresh
<1>2. CASE Disconnect
  <2>1. client # "none" /\ client' = "gone"
        /\ UNCHANGED <<server, main, running_, server_fd_, sock, jpeg_buf_,
                       new_frame_, jpeg_copy, pending, received>>
    BY <1>2 DEF Disconnect, ClientChange
  <2> QED BY <2>1 DEF IInv, TypeOK, Sockets, Clients, Fresh
<1>3. CASE Stall
  BY <1>3 DEF Stall, ClientChange, IInv, TypeOK, Sockets, Clients, Fresh
<1> QED BY <1>1, <1>2, <1>3 DEF Client

LEMMA Preserved == IInv /\ [Next]_vars => IInv'
<1> SUFFICES ASSUME IInv, [Next]_vars PROVE IInv' OBVIOUS
<1>1. CASE Server BY <1>1, SettingUp, Accepting, ServingOne DEF Server
<1>2. CASE push_frame BY <1>2, Pushing
<1>3. CASE StopClear \/ Stop BY <1>3, Stopping
<1>4. CASE Client BY <1>4, ClientsDoing
<1>5. CASE UNCHANGED vars
  BY <1>5 DEF vars, IInv, TypeOK, Sockets, Clients, Fresh
<1> QED BY <1>1, <1>2, <1>3, <1>4, <1>5 DEF Next, Terminated

(* The inductive invariant behind the theorems.                            *)
THEOREM StreamerInvariance == Spec => []IInv
BY Starts, Preserved, PTL DEF Spec

(* Both threads are at places of theirs, and what was sent is not newer    *)
(* than what was copied, nor that than what was pushed.                    *)
THEOREM StreamerTypeCorrect == Spec => []TypeOK
<1>1. IInv => TypeOK BY DEF IInv
<1> QED BY <1>1, StreamerInvariance, PTL

(* However the server thread of mjpeg_streamer.cpp:64-187 ends, it has     *)
(* closed its listening socket and its client's, whichever calls failed.   *)
THEOREM ServerClosesAll == Spec => []NothingLeftOpen
<1>1. IInv => NothingLeftOpen
  BY DEF IInv, Sockets, Clients, NothingLeftOpen
<1> QED BY <1>1, StreamerInvariance, PTL

(* Each picture sent is newer than all sent before, across clients.        *)
THEOREM EachSentIsNewer == Spec => SentIsNewer
<1>1. IInv /\ [Next]_vars =>
        [server = "send" /\ server' = "inner" => jpeg_copy > received]_vars
  BY DEF IInv, Fresh
<1> QED BY <1>1, StreamerInvariance, PTL DEF Spec, SentIsNewer
=============================================================================
