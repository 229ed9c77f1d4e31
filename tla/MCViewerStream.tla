--------------------------- MODULE MCViewerStream ---------------------------
(* ViewerStream with bytes of two bits and frames full of SOF values.      *)
EXTENDS ViewerStream

Built(version, type, payload) ==
    LET body == <<version, type, Len(payload)>> \o payload
    IN <<SOF>> \o body \o <<checksum(body)>>

Short  == Built(0, 1, <<>>)
Long   == Built(3, 0, <<SOF>>)

MCScript == <<<<Short, Long>>, <<Long>>>>
MCSerial  == {<<SOF, 0>>}
MCFiles   == {<<SOF, 1, 0, 1, 0>>}
=============================================================================
