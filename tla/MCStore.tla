------------------------------ MODULE MCStore ------------------------------
(***************************************************************************)
(* Store on a small vault: a note of two chunks, an edit of it that keeps  *)
(* one of them, a note that repeats a chunk, an empty note and a picture.  *)
(***************************************************************************)
EXTENDS Store

CONSTANTS intro, todo, image

MCDocs == {"note", "edit", "twice", "empty", "picture"}

Text(b) == [body |-> b, kind |-> "text"]

MCChunksOf ==
    [d \in MCDocs |->
        CASE d = "note"    -> <<Text(intro), Text(todo)>>
          [] d = "edit"    -> <<Text(todo)>>
          [] d = "twice"   -> <<Text(intro), Text(intro)>>
          [] d = "empty"   -> <<>>
          [] d = "picture" -> <<[body |-> image, kind |-> "media"]>>]

=============================================================================
