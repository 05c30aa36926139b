----------------------------- MODULE PdfLoader -----------------------------
(***************************************************************************)
(* pdf_loader.py: the text load_invoice gets out of a file.                *)
(*                                                                         *)
(* A file is a record [opens, pages]: whether it can be opened as a PDF,   *)
(* and its pages [text, images].  What extract_text() gives for a page is  *)
(* "legible", "blank" (white space and underscore rules) or "none", or it  *)
(* "raises"; images says whether listing the page's images "works" or      *)
(* "raises".  ocr is "on", "off" (enable_ocr_fallback) or "missing": no    *)
(* pytesseract or Pillow.  A text is a set of parts <<p, what>>: of page   *)
(* p, what is printed on it.                                               *)
(***************************************************************************)
EXTENDS Integers, Sequences

(* _ocr_page: pdfplumber's image dicts have no "data" key, so that every   *)
(* image raises, is logged and skipped; nothing is ever read from one.     *)
OcrPage(p, page) == {}

(* page.extract_text(), and page.images when OCR is asked for, are outside *)
(* every try of the loader but the one around the whole file.              *)
PageRaises_Never(page, ocr) == FALSE
PageRaises(page, ocr) ==
  \/ page.text = "raises"
  \/ page.text = "none" /\ ocr = "on" /\ page.images = "raises"

(* OCR is for pages of which extract_text() gives nothing at all.          *)
ExtractText(pages, ocr) ==
  UNION { IF pages[p].text \in {"legible", "blank"} THEN {<<p, pages[p].text>>}
          ELSE IF ocr = "on" THEN OcrPage(p, pages[p]) ELSE {}
          : p \in DOMAIN pages }

(* Nothing is left of rules and white space.                               *)
CleanRawText(text) == {part \in text : part[2] # "blank"}

(* load_invoice: no text is an error, and so is whatever is raised, of     *)
(* any page: the text of the others goes with it.                          *)
LoadInvoice(file, ocr) ==
  LET readable == file.opens /\ \A p \in DOMAIN file.pages : ~PageRaises(file.pages[p], ocr)
      text     == IF readable THEN CleanRawText(ExtractText(file.pages, ocr)) ELSE {}
  IN  [raw_pdf_text |-> text, load_error |-> text = {}]
=============================================================================
