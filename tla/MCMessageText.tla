--------------------------- MODULE MCMessageText ---------------------------
(* Names for the model checking of MessageText: characters of one to four  *)
(* bytes at the borders of their ranges, a stray continuation byte, a lead *)
(* byte alone and a character of three bytes cut after two.                *)
EXTENDS MessageText

Piece(code, bytes) == [code |-> code, bytes |-> bytes]

MCPieces ==
    { Piece(1, <<1>>), Piece(49, <<49>>), Piece(127, <<127>>),
      Piece(233, <<195, 169>>),
      Piece(2048, <<224, 160, 128>>), Piece(22823, <<229, 164, 167>>),
      Piece(65535, <<239, 191, 191>>),
      Piece(128512, <<240, 159, 152, 128>>),
      Piece(-1, <<128>>), Piece(-1, <<229>>), Piece(-1, <<229, 164>>) }

=============================================================================
