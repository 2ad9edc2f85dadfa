------------------------------ MODULE MCBytes -------------------------------
(* Values for the constants of ByteNodes. *)
EXTENDS ByteNodes, Bitwise

MCXor(a, b) == a ^^ b

Packet(t, p) == [type |-> t, payload |-> p]

MCFrames == {Packet(3, <<>>), Packet(1, <<3>>), Packet(1, <<2, 1>>), Packet(1, <<0, 0, 0>>)}

MCCode == [PING |-> 1, PONG |-> 2, SET_OUTPUT |-> 3, GET_STATUS |-> 4, STATUS |-> 5, SET_PARAM |-> 6,
           STREAM_ON |-> 8, STREAM_OFF |-> 9, STREAM_DATA |-> 10,
           GET_PARAM |-> 7, PARAM_VAL |-> 12, ERROR |-> 13]

To(a, c, p) == [to |-> a, cmd |-> c, payload |-> p]

MCBusFrames ==
  [searchlight |-> {To(3, 3, <<0, 9>>), To(3, 4, <<>>), To(2, 5, <<11>>)},
   pantilt     |-> {To(3, 1, <<>>), To(15, 3, <<1, 14>>), To(3, 4, <<>>), To(2, 5, <<11>>)},
   lightbar    |-> {To(3, 3, <<0, 11>>), To(3, 6, <<2, 5, 1>>), To(3, 8, <<1, 0>>), To(15, 9, <<>>)}]

MCBuilds == {<<"searchlight", "rp2040">>, <<"pantilt", "stm32f1">>, <<"pantilt", "rp2040">>,
             <<"lightbar", "stm32f1">>}

MCRxDepth == [stm32f1 |-> 1, rp2040 |-> 3]
MCTxDepth == [stm32f1 |-> 2, rp2040 |-> 3]

\* Two of the four devices, and what each starts with that is not 0.
MCDevices == <<2, 4>>

MCAtBoot ==
  LET set == <<[rd_distance_mm |-> 50, rd_signal |-> 11, rd_mode |-> 1, rd_range_max_m |-> 12],
               [lb_color_rgb565 |-> 255]>>
  IN  [i \in 1..2 |-> [f \in Fields |-> IF f \in DOMAIN set[i] THEN set[i][f] ELSE 0]]

MCQueries == {To(2, 4, <<>>), To(2, 8, <<0, 0>>), To(2, 3, <<0, 11>>), To(4, 6, <<2, 5>>),
              To(4, 6, <<2, 5, 1>>), To(1, 7, <<1>>), To(15, 1, <<>>), To(4, 14, <<11>>)}

MCPokes == {[op |-> "disable", addr |-> 2], [op |-> "int", addr |-> 4],
            [op |-> "addr", addr |-> 2, new |-> 4]}

=============================================================================
