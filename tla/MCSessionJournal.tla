-------------------------- MODULE MCSessionJournal --------------------------
(* A message, a batch of two lines and a message for the queue.            *)
EXTENDS SessionJournal

CONSTANTS h1, h2, send, bind, queue, message, record, entry, queued

MCRequest == {send, bind, queue}
MCLinesOf ==
    (send :> <<message>>) @@ (bind :> <<record, entry>>) @@ (queue :> <<queued>>)
MCWide == {message, entry}
=============================================================================
