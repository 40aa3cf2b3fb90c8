--------------------------- MODULE MCVoiceUplink ---------------------------
(* Sizes for TLC, in I2S DMA buffers: a chunk is two of them.              *)
EXTENDS VoiceUplink

MCReadSizes == 1..Chunk
=============================================================================
