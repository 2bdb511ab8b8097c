------------------------------ MODULE MCBrowserChats ------------------------------
(* Small instances of BrowserChats for TLC: the model values are in the .cfg
   files; chats, and brokers, are interchangeable. *)
EXTENDS ChatProperties, TLC

Interchangeable == Permutations(Chats) \cup Permutations(Brokers)
=============================================================================
