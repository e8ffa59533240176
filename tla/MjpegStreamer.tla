--------------------------- MODULE MjpegStreamer ----------------------------
(***************************************************************************)
(* The HTTP streamer of mjpeg_streamer.{h,cpp}: a server thread that takes *)
(* one client at a time and sends it every new picture, the main thread    *)
(* that pushes pictures and in the end stops the server, and the client.   *)
(*                                                                         *)
(* The server waits for a picture on a condition variable with a timeout.  *)
(* The wait is modelled in its parts: the predicate is tested under        *)
(* jpeg_mtx_, then the thread parks, giving up the mutex; a notification   *)
(* reaches it only when it is parked.  push_frame changes what the         *)
(* predicate reads under the mutex, stop does not.                         *)
(***************************************************************************)
EXTENDS Integers

CONSTANTS
  Stalls,      \* a client may stop reading without closing the connection
  Faults,      \* the socket calls of the server that may fail
  MaxFrames    \* bound of the model: pictures pushed in one run

ASSUME StreamerAssumption ==
  /\ Stalls \in BOOLEAN
  /\ Faults \subseteq {"socket", "bind", "listen", "accept"}
  /\ MaxFrames \in Nat

VARIABLES
  server,      \* where the server thread is
  main,        \* where the main thread is
  running_,
  server_fd_,  \* whether the field holds a descriptor, if only a closed one
  sock,        \* the listening socket, as the kernel sees it
  jpeg_buf_,   \* the number of the picture in the buffer, 0 for none
  new_frame_,
  jpeg_copy,   \* the server's copy of the picture it is sending
  client,      \* the connection being served
  pending,     \* another client waits to be accepted
  received     \* the picture sent last

vars == <<server, main, running_, server_fd_, sock, jpeg_buf_, new_frame_,
          jpeg_copy, client, pending, received>>

Init ==
  /\ server = "socket"
  /\ main = "push"
  /\ running_ = TRUE
  /\ server_fd_ = FALSE
  /\ sock = "none"
  /\ jpeg_buf_ = 0
  /\ new_frame_ = FALSE
  /\ jpeg_copy = 0
  /\ client = "none"
  /\ pending = FALSE
  /\ received = 0

Step(from, to) == server = from /\ server' = to
-----------------------------------------------------------------------------
(* The server thread: setting up.                                          *)

Socket ==
  /\ \/ Step("socket", "bind") /\ server_fd_' = TRUE /\ sock' = "open"
     \/ /\ "socket" \in Faults
        /\ Step("socket", "done")
        /\ UNCHANGED <<server_fd_, sock>>
  /\ UNCHANGED <<main, running_, jpeg_buf_, new_frame_, jpeg_copy, client,
                 pending, received>>

(* Mutation: the socket is not closed when bind fails.                     *)
Bind_Leak ==
  /\ \/ Step("bind", "listen") /\ UNCHANGED sock
     \/ "bind" \in Faults /\ Step("bind", "done") /\ UNCHANGED sock
  /\ UNCHANGED <<main, running_, server_fd_, jpeg_buf_, new_frame_, jpeg_copy,
                 client, pending, received>>

Bind ==
  /\ \/ Step("bind", "listen") /\ UNCHANGED sock
     \/ "bind" \in Faults /\ Step("bind", "done") /\ sock' = "closed"
  /\ UNCHANGED <<main, running_, server_fd_, jpeg_buf_, new_frame_, jpeg_copy,
                 client, pending, received>>

Listen ==
  /\ \/ Step("listen", "loop") /\ sock' = "listening"
     \/ "listen" \in Faults /\ Step("listen", "done") /\ sock' = "closed"
  /\ UNCHANGED <<main, running_, server_fd_, jpeg_buf_, new_frame_, jpeg_copy,
                 client, pending, received>>
-----------------------------------------------------------------------------
(* The server thread: accepting clients.                                   *)

Loop ==
  /\ Step("loop", IF running_ THEN "accept" ELSE "close")
  /\ UNCHANGED <<main, running_, server_fd_, sock, jpeg_buf_, new_frame_,
                 jpeg_copy, client, pending, received>>

(* The response header fits the fresh connection's buffer; the result of   *)
(* sending it is ignored.                                                  *)
Accept ==
  /\ sock = "listening"
  /\ pending
  /\ Step("accept", "inner")
  /\ client' = "reading"
  /\ pending' = FALSE
  /\ UNCHANGED <<main, running_, server_fd_, sock, jpeg_buf_, new_frame_,
                 jpeg_copy, received>>

(* EINTR: the loop goes round.                                             *)
AcceptInterrupted ==
  /\ "accept" \in Faults
  /\ Step("accept", "loop")
  /\ UNCHANGED <<main, running_, server_fd_, sock, jpeg_buf_, new_frame_,
                 jpeg_copy, client, pending, received>>

(* Any other error ends the server: the socket was shut down, or accept    *)
(* failed for a reason of its own.                                         *)
AcceptFail ==
  /\ sock = "shut" \/ "accept" \in Faults
  /\ Step("accept", "close")
  /\ UNCHANGED <<main, running_, server_fd_, sock, jpeg_buf_, new_frame_,
                 jpeg_copy, client, pending, received>>

(* The descriptor is closed but server_fd_ keeps its number.               *)
Close ==
  /\ Step("close", "done")
  /\ sock' = "closed"
  /\ pending' = FALSE
  /\ UNCHANGED <<main, running_, server_fd_, jpeg_buf_, new_frame_, jpeg_copy,
                 client, received>>
-----------------------------------------------------------------------------
(* The server thread: serving a client.                                    *)

Inner ==
  /\ Step("inner", IF running_ THEN "test" ELSE "closeclient")
  /\ UNCHANGED <<main, running_, server_fd_, sock, jpeg_buf_, new_frame_,
                 jpeg_copy, client, pending, received>>

(* The predicate of wait_for, under the mutex.                             *)
Test ==
  /\ Step("test", IF new_frame_ \/ ~ running_ THEN "take" ELSE "parking")
  /\ UNCHANGED <<main, running_, server_fd_, sock, jpeg_buf_, new_frame_,
                 jpeg_copy, client, pending, received>>

Park ==
  /\ Step("parking", "parked")
  /\ UNCHANGED <<main, running_, server_fd_, sock, jpeg_buf_, new_frame_,
                 jpeg_copy, client, pending, received>>

(* Mutation: the wait has no timeout.                                      *)
Timeout_Never == FALSE

(* 500 ms are over: the mutex is taken again and wait_for returns.         *)
Timeout ==
  /\ Step("parked", "take")
  /\ UNCHANGED <<main, running_, server_fd_, sock, jpeg_buf_, new_frame_,
                 jpeg_copy, client, pending, received>>

(* Mutation: the copy leaves new_frame_ set.                               *)
Take_Keep ==
  /\ Step("take", IF ~ running_ THEN "closeclient"
                  ELSE IF new_frame_ THEN "send" ELSE "inner")
  /\ jpeg_copy' = IF running_ /\ new_frame_ THEN jpeg_buf_ ELSE jpeg_copy
  /\ UNCHANGED <<main, running_, server_fd_, sock, jpeg_buf_, new_frame_,
                 client, pending, received>>

(* After the wait, still under the mutex.                                  *)
Take ==
  /\ \/ ~ running_ /\ Step("take", "closeclient")
        /\ UNCHANGED <<jpeg_copy, new_frame_>>
     \/ running_ /\ ~ new_frame_ /\ Step("take", "inner")
        /\ UNCHANGED <<jpeg_copy, new_frame_>>
     \/ running_ /\ new_frame_ /\ Step("take", "send")
        /\ jpeg_copy' = jpeg_buf_
        /\ new_frame_' = FALSE
  /\ UNCHANGED <<main, running_, server_fd_, sock, jpeg_buf_, client, pending,
                 received>>

(* Mutation: new_frame_ is cleared once the picture has been sent.         *)
Send_Clear ==
  /\ \/ /\ client = "reading"
        /\ Step("send", "inner")
        /\ received' = jpeg_copy
     \/ /\ client = "gone"
        /\ Step("send", "closeclient")
        /\ UNCHANGED received
  /\ new_frame_' = FALSE
  /\ UNCHANGED <<main, running_, server_fd_, sock, jpeg_buf_, jpeg_copy,
                 client, pending>>

(* The two sends return when the client reads, or fail when it is gone;    *)
(* while it is connected and does not read they block, with no timeout.    *)
Send ==
  /\ \/ /\ client = "reading"
        /\ Step("send", "inner")
        /\ received' = jpeg_copy
     \/ /\ client = "gone"
        /\ Step("send", "closeclient")
        /\ UNCHANGED received
  /\ UNCHANGED <<main, running_, server_fd_, sock, jpeg_buf_, new_frame_,
                 jpeg_copy, client, pending>>

CloseClient ==
  /\ Step("closeclient", "loop")
  /\ client' = "none"
  /\ UNCHANGED <<main, running_, server_fd_, sock, jpeg_buf_, new_frame_,
                 jpeg_copy, pending, received>>

Server == Socket \/ Bind \/ Listen \/ Loop \/ Accept \/ AcceptInterrupted
          \/ AcceptFail \/ Close \/ Inner \/ Test \/ Park \/ Timeout \/ Take
          \/ Send \/ CloseClient
-----------------------------------------------------------------------------
(* The main thread.                                                        *)

(* notify_one and notify_all: a parked server tests its predicate again.   *)
Notify == server' = IF server = "parked" THEN "test" ELSE server

(* jpeg_mtx_ is free: the server is not between its test and its parking.  *)
MutexFree == server \notin {"parking", "take"}

(* Mutation: a picture that cannot be encoded is announced all the same.   *)
push_frame_Empty ==
  /\ main = "push"
  /\ MutexFree
  /\ jpeg_buf_ < MaxFrames
  /\ jpeg_buf_' \in {0, jpeg_buf_ + 1}
  /\ new_frame_' = TRUE
  /\ Notify
  /\ UNCHANGED <<main, running_, server_fd_, sock, jpeg_copy, client, pending,
                 received>>

push_frame ==
  /\ main = "push"
  /\ MutexFree
  /\ jpeg_buf_ < MaxFrames
  /\ jpeg_buf_' = jpeg_buf_ + 1
  /\ new_frame_' = TRUE
  /\ Notify
  /\ UNCHANGED <<main, running_, server_fd_, sock, jpeg_copy, client, pending,
                 received>>

(* stop is called: running_ is cleared without the mutex.                  *)
StopClear ==
  /\ main = "push"
  /\ main' = "notify"
  /\ running_' = FALSE
  /\ UNCHANGED <<server, server_fd_, sock, jpeg_buf_, new_frame_, jpeg_copy,
                 client, pending, received>>

StopNotify ==
  /\ main = "notify"
  /\ main' = "shutdown"
  /\ Notify
  /\ UNCHANGED <<running_, server_fd_, sock, jpeg_buf_, new_frame_, jpeg_copy,
                 client, pending, received>>

(* Shutting down has an effect on a listening socket only: it wakes accept *)
(* and makes every later accept fail.                                      *)
StopShutdown ==
  /\ main = "shutdown"
  /\ main' = "join"
  /\ sock' = IF server_fd_ /\ sock = "listening" THEN "shut" ELSE sock
  /\ UNCHANGED <<server, running_, server_fd_, jpeg_buf_, new_frame_,
                 jpeg_copy, client, pending, received>>

StopJoin ==
  /\ main = "join"
  /\ server = "done"
  /\ main' = "stopped"
  /\ UNCHANGED <<server, running_, server_fd_, sock, jpeg_buf_, new_frame_,
                 jpeg_copy, client, pending, received>>

Stop == StopNotify \/ StopShutdown \/ StopJoin
-----------------------------------------------------------------------------
(* The client side.                                                        *)

Connect ==
  /\ sock = "listening"
  /\ ~ pending
  /\ pending' = TRUE
  /\ UNCHANGED <<server, main, running_, server_fd_, sock, jpeg_buf_,
                 new_frame_, jpeg_copy, client, received>>

ClientChange(from, to) ==
  /\ client = from
  /\ client' = to
  /\ UNCHANGED <<server, main, running_, server_fd_, sock, jpeg_buf_,
                 new_frame_, jpeg_copy, pending, received>>

Disconnect == ClientChange("reading", "gone") \/ ClientChange("stalled", "gone")

(* For good: a client that pauses is one whose Send has not happened yet.  *)
Stall == Stalls /\ ClientChange("reading", "stalled")

Client == Connect \/ Disconnect \/ Stall

Terminated == main = "stopped" /\ UNCHANGED vars
-----------------------------------------------------------------------------
Next == Server \/ push_frame \/ StopClear \/ Stop \/ Client \/ Terminated

Spec == Init /\ [][Next]_vars

(* The server and stop go on whenever they can.  Nothing is assumed of the *)
(* client, nor of how many pictures are pushed.                            *)
Fairness == WF_vars(Server) /\ WF_vars(Stop)

FairSpec == Spec /\ Fairness
-----------------------------------------------------------------------------
(* Type invariant.                                                         *)
TypeOK ==
  /\ server \in {"socket", "bind", "listen", "loop", "accept", "close",
                 "inner", "test", "parking", "parked", "take", "send",
                 "closeclient", "done"}
  /\ main \in {"push", "notify", "shutdown", "join", "stopped"}
  /\ running_ \in BOOLEAN /\ server_fd_ \in BOOLEAN /\ new_frame_ \in BOOLEAN
  /\ pending \in BOOLEAN
  /\ sock \in {"none", "open", "listening", "shut", "closed"}
  /\ client \in {"none", "reading", "stalled", "gone"}
  /\ jpeg_buf_ \in 0 .. MaxFrames
  /\ jpeg_copy \in 0 .. jpeg_buf_
  /\ received \in 0 .. jpeg_copy

(* No picture is sent twice, to one client or to two one after the other,  *)
(* nor one older than another already sent: new_frame_ is cleared with the *)
(* copy, under the mutex.                                                  *)
SentIsNewer == [][server = "send" /\ server' = "inner" => jpeg_copy > received]_vars

(* However the server thread ends, it leaves no socket open: neither the   *)
(* listening one nor that of a client, on no error path.                   *)
NothingLeftOpen ==
  server = "done" => sock \in {"none", "closed"} /\ client = "none"

(* Liveness: each picture pushed while a client is served is sent to it,   *)
(* or a newer one is, unless the client leaves or the streamer is stopped: *)
(* none is overlooked because it was pushed while an earlier one was being *)
(* sent, or before the server was parked.  (A picture that was copied for  *)
(* a client that is gone when it is sent is not kept for the next one.)    *)
NewestSent ==
  \A n \in 1 .. MaxFrames :
    client = "reading" /\ jpeg_buf_ < n
      ~> \/ received >= n
         \/ client # "reading"
         \/ ~ running_
         \/ [](jpeg_buf_ < n)

(* Liveness: stop returns, unless a client is connected and does not read. *)
(* stop's notification may be missed, since it does not hold the mutex,    *)
(* and the socket may not be there yet when stop looks for it; neither     *)
(* keeps the server thread from ending.                                    *)
StopReturnsUnlessStalled == ~ running_ ~> main = "stopped" \/ client = "stalled"

(* Liveness: Ctrl-C ends the program.  main.cpp:132 waits for stop before  *)
(* it ends anything else.                                                  *)
StopReturns == ~ running_ ~> main = "stopped"
=============================================================================
