---------------------------- MODULE ImageCompiler ----------------------------
(* tux64-imagecompiler: the encoder, the compressor and the formatter between *)
(* the load and the save.                                                     *)
EXTENDS Tool, ImageCodec

CONSTANT Images     \* pictures, as sequences of pixels

ImageArguments == List(<<"input", "output", "name_pixels", "name_color_table">>, {})

ASSUME ImageCompilerAssumption ==
    Images \subseteq Seq([1 .. 4 -> 0 .. 255]) /\ Measured(ImageArguments)

ImageMain == Main(ImageArguments)

ImageLoad ==
    /\ Load
    /\ IF pc' = "compile" THEN input' \in Images ELSE UNCHANGED input

(* The file is not needed once it is encoded.                                 *)
ImageEncode ==
    /\ pc = "compile"
    /\ Use({}, {"input"}, {"input"}, {})
    /\ encoded' = Encode(input)
    /\ IF encoded'.status = "ok" THEN pc' = "format" /\ UNCHANGED status
       ELSE Finish("encode_error")
    /\ UNCHANGED <<tool, parameters, input, buffer, output, reason>>

ImageFormat ==
    LET compressed == Compress(encoded.pixel_tuples)
        name_pixels == ParameterCharacters[parameters["name_pixels"]]
        name_color_table == ParameterCharacters[parameters["name_color_table"]]
        names == {"name_pixels", "name_color_table"}
    IN  /\ pc = "format"
        /\ \/ /\ Use(names, {}, {}, {"output"})
              /\ buffer' = ImageLength(compressed, name_pixels, name_color_table)
              /\ output' = GenerateImage(compressed, encoded.color_table, name_pixels,
                                         name_color_table)
              /\ pc' = "save" /\ UNCHANGED status
           \/ /\ Use(names, {}, {}, {})
              /\ Finish("out_of_memory") /\ UNCHANGED <<buffer, output>>
        /\ UNCHANGED <<tool, parameters, input, encoded, reason>>

(* A save that fails is reported with the status of the load.                 *)
ImageSave == Save({"output"}, {}, {"output"}, {"output"}, "ok")

ImageDisplay == Display({}, {})

ImageCompilerNext ==
    ImageMain \/ ImageLoad \/ ImageEncode \/ ImageFormat \/ ImageSave \/ ImageDisplay
-----------------------------------------------------------------------------
(* What the logo shows of the bytes and the color table in the source.        *)
Background == -1
Logo ==
    LET values == Values(output)
        bytes == Len(values) - Colors
    IN  LogoDecompress(SubSeq(values, 1, bytes), SubSeq(values, bytes + 1, Len(values)),
                       Background)

Quantised(pixel) == IF Rgba5551(pixel) % 2 = 0 THEN Background ELSE Rgba5551(pixel)
=============================================================================
