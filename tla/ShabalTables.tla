---------------------------- MODULE ShabalTables ----------------------------
(***************************************************************************)
(* The initial states of src/contrib/shabal/sph_shabal.cpp:387-485, one    *)
(* for each size of the output.  The kernel has the same tables            *)
(* (src/kernel/kernel.h:213-311) and uses those for 256 bits.              *)
(*                                                                         *)
(* A table lists its words by their halves, high half first.               *)
(***************************************************************************)
EXTENDS Integers, Sequences

\* The array of the words whose halves are listed.
Words(halves) ==
  [k \in 0 .. Len(halves) \div 2 - 1 |-> <<halves[2 * k + 1], halves[2 * k + 2]>>]

A_init_192 == Words(<<
  \hFD74, \h9ED4, \hB798, \hE530, \h3390, \h4B6F, \h46BD, \hA85E, \h0769, \h34B4,
  \h454B, \h4058, \h77F7, \h4527, \hFB4C, \hF465, \h6293, \h1DA9, \hE778, \hC8DB,
  \h22B3, \h998E, \hAC15, \hCFB9 >>)

B_init_192 == Words(<<
  \h58BC, \hBAC4, \hEC47, \hA08E, \hAEE9, \h33B2, \hDFCB, \hC824, \hA794, \h4804,
  \hBF65, \hBDB0, \h5A9D, \h4502, \h5997, \h9AF7, \hC5CE, \hA54E, \h4B6B, \h8150,
  \h16E7, \h1909, \h7D63, \h2319, \h9305, \h73A0, \hF34C, \h63D1, \hCAF9, \h14B4,
  \hFDD6, \h612C >>)

C_init_192 == Words(<<
  \h6155, \h0878, \h89EF, \h2B75, \hA166, \h0C46, \h7EF3, \h855B, \h7297, \hB58C,
  \h1BC6, \h7793, \h7FB1, \hC723, \hB66F, \hC640, \h1A48, \hB71C, \hF097, \h6D17,
  \h088C, \hE80A, \hA454, \hEDF3, \h1C09, \h6BF4, \hAC76, \h224B, \h5215, \h781C,
  \hCD5D, \h2669 >>)

A_init_224 == Words(<<
  \hA520, \h1467, \hA9B8, \hD94A, \hD4CE, \hD997, \h6837, \h9D7B, \hA7FC, \h73BA,
  \hF1A2, \h546B, \h6067, \h82BF, \hE0BC, \hFD0F, \h2F25, \h374E, \h069A, \h149F,
  \h5E2D, \hFF25, \hFAEC, \hF061 >>)

B_init_224 == Words(<<
  \hEC99, \h05D8, \hF218, \h50CF, \hC0A7, \h46C8, \h21DA, \hD498, \h3515, \h6EEB,
  \h088C, \h97F2, \h2630, \h3E40, \h8A2D, \h4FB5, \hFEEE, \h44B6, \h8A1E, \h9573,
  \h7B81, \h111A, \hCBC1, \h39F0, \hA351, \h3861, \h1D2C, \h362E, \h918C, \h580E,
  \hB58E, \h1B9C >>)

C_init_224 == Words(<<
  \hE4B5, \h73A1, \h4C1A, \h0880, \h1E90, \h7C51, \h0480, \h7EFD, \h3AD8, \hCDE5,
  \h16B2, \h1302, \h0251, \h2C53, \h2204, \hCB18, \h9940, \h5F2D, \hE5B6, \h48A1,
  \h70AB, \h1D43, \hA10C, \h25C2, \h16F1, \hAC05, \h38BB, \hEB56, \h9B01, \hDC60,
  \hB109, \h6D83 >>)

A_init_256 == Words(<<
  \h52F8, \h4552, \hE54B, \h7999, \h2D8E, \hE3EC, \hB964, \h5191, \hE007, \h8B86,
  \hBB7C, \h44C9, \hD2B5, \hC1CA, \hB0D2, \hEB8C, \h14CE, \h5A45, \h22AF, \h50DC,
  \hEFFD, \hBC6B, \hEB21, \hB74A >>)

B_init_256 == Words(<<
  \hB555, \hC6EE, \h3E71, \h0596, \hA72A, \h652F, \h9301, \h515F, \hDA28, \hC1FA,
  \h696F, \hD868, \h9CB6, \hBF72, \h0AFE, \h4002, \hA6E0, \h3615, \h5138, \hC1D4,
  \hBE21, \h6306, \hB38B, \h8890, \h3EA8, \hB96B, \h3299, \hACE4, \h3092, \h4DD4,
  \h55CB, \h34A5 >>)

C_init_256 == Words(<<
  \hB405, \hF031, \hC423, \h3EBA, \hB373, \h3979, \hC0DD, \h9D55, \hC51C, \h28AE,
  \hA327, \hB8E1, \h56C5, \h6167, \hED61, \h4433, \h88B5, \h9D60, \h60E2, \hCEBA,
  \h758B, \h4B8B, \h83E8, \h2A7F, \hBC96, \h8828, \hE6E0, \h0BF7, \hBA83, \h9E55,
  \h9B49, \h1C60 >>)

A_init_384 == Words(<<
  \hC8FC, \hA331, \hE55C, \h504E, \h003E, \hBF26, \hBB6B, \h8D83, \h7B04, \h48C1,
  \h41B8, \h2789, \h0A7C, \h9601, \h8D65, \h9CFF, \hB6E2, \h673E, \hCA54, \hC77B,
  \h1460, \hFD7E, \h3FCB, \h8F2D >>)

B_init_384 == Words(<<
  \h5272, \h91FC, \h2A16, \h455F, \h78E6, \h27E5, \h944F, \h169F, \h1CA6, \hF016,
  \hA854, \hEA25, \h8DB9, \h8ABE, \hF2C6, \h2641, \h3011, \h7DCB, \hCF5C, \h4309,
  \h9371, \h1A25, \hF9F6, \h71B8, \hB01D, \h2116, \h333F, \h4B89, \hB285, \hD165,
  \h8682, \h9B36 >>)

C_init_384 == Words(<<
  \hF764, \hB11A, \h7617, \h2146, \hCEF6, \h934D, \hC6D2, \h8399, \hFE09, \h5F61,
  \h5E60, \h18B4, \h5048, \hECF5, \h5135, \h3261, \h6E6E, \h36DC, \h6313, \h0DAD,
  \hA9C6, \h9BD6, \h1E90, \hEA0C, \h7C35, \h073B, \h28D9, \h5E6D, \hAA34, \h0E0D,
  \hCB3D, \hEE70 >>)

A_init_512 == Words(<<
  \h2072, \h8DFD, \h46C0, \hBD53, \hE782, \hB699, \h5530, \h4632, \h71B4, \hEF90,
  \h0EA9, \hE82C, \hDBB9, \h30F1, \hFAD0, \h6B8B, \hBE0C, \hAE40, \h8BD1, \h4410,
  \h76D2, \hADAC, \h28AC, \hAB7F >>)

B_init_512 == Words(<<
  \hC109, \h9CB7, \h07B3, \h85F3, \hE744, \h2C26, \hCC8A, \hD640, \hEB6F, \h56C7,
  \h1EA8, \h1AA9, \h73B9, \hD314, \h1DE8, \h5D08, \h4891, \h0A5A, \h893B, \h22DB,
  \hC5A0, \hDF44, \hBBC4, \h324E, \h72D2, \hF240, \h7594, \h1D99, \h6D8B, \hDE82,
  \hA1A7, \h502B >>)

C_init_512 == Words(<<
  \hD9BF, \h68D1, \h58BA, \hD750, \h5602, \h8CB2, \h8134, \hF359, \hB5D4, \h69D8,
  \h941A, \h8CC2, \h418B, \h2A6E, \h0405, \h2780, \h7F07, \hD787, \h5194, \h358F,
  \h3C60, \hD665, \hBE97, \hD79A, \h950C, \h3434, \hAED9, \hA06D, \h2537, \hDC8D,
  \h7CDB, \h5969 >>)
=============================================================================
