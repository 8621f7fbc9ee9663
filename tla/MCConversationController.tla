---------------------- MODULE MCConversationController ----------------------
(* Instances of ConversationController: a page of a host, and a visitor's  *)
(* page that starts over.                                                  *)
EXTENDS ConversationController

MCHost    == {"host"}
MCVisitor == {"anonymous"}

MCNoFault     == {}
MCInvalid     == {"transport", "authentication", "validation"}
MCNotAllowed  == {"transport", "authentication", "permission"}
=============================================================================
